---- MODULE Spec2Model ----
(***************************************************************************)
(* NSSM-GUI: the service-configuration translation engine.                 *)
(*                                                                         *)
(* Two implementations of the command synthesizer and of the apply         *)
(* sequence live in the repository and both are modelled here:             *)
(*   "NSSMGUI"     - src/main.py, NSSMGUI.configure_service (synchronous,  *)
(*                   diffs the target against old_config or the defaults), *)
(*   "NSSmManager" - src/nssm_gui/service_manager.py,                      *)
(*                   NSSmManager.configure_service (async, no baseline).   *)
(* A run of configure_service is modelled command by command: every        *)
(* invocation handed to run_nssm_command is one step whose result is       *)
(* chosen by the environment (the external wrapper tool).                  *)
(*                                                                         *)
(* Strings that the code builds by concatenation are sequences of their    *)
(* parts; a Python dict is the sequence of its (key, value) pairs in       *)
(* insertion order, compared as dicts are (order-insensitively).           *)
(***************************************************************************)
EXTENDS Integers, Sequences, FiniteSets, TLC

VARIABLES
    impl,       \* which configure_service is running: "NSSMGUI" or "NSSmManager"
    pc,         \* "idle", "running", "returned", "done"
    edit,       \* the edit argument of configure_service
    config,     \* the target ServiceConfig
    baseline,   \* <<>> (none), or <<c>>: the configuration loaded by get_service_config
    pending,    \* invocations still to be handed to run_nssm_command, in order
    calls,      \* invocations handed to run_nssm_command so far, with their results
    persisted,  \* commands the wrapper tool has applied (exit status 0), in order
    outcome,    \* result of NSSmManager.configure_service: returned value or exception
    messages,   \* message boxes shown to the user, in order
    failures,   \* number of failing executor results injected so far
    \* reading a service back (get_service_config)
    dump_output,  \* the text the wrapper tool prints for "dump <service>"
    parser,       \* which get_service_config has read it: "", "NSSMGUI", "NSSmManager"
    config_data,  \* the dict returned by the dump parser
    service_config, \* <<>> (None), or <<c>>: the ServiceConfig built from config_data
    original,     \* <<>>, or <<c>>: the configuration the service was re-installed from
    \* constructing ServiceConfig instances
    module,       \* the class used: "main" (src/main.py) or "models" (src/nssm_gui/models.py)
    kwargs,       \* the keyword arguments of the last construction
    heap,         \* the instances constructed so far, by object identity
    errors,       \* <<>>, or <<locs>>: the field names of the ValidationError raised
    \* lifecycle operations of NSSmManager
    operation,    \* <<>>, or <<op>>: the last operation and the object or service it is about
    \* ConfigManager (src/nssm_gui/utils/config.py)
    dicts,        \* the dict objects, by identity: the sections of the configurations
    lists,        \* the list objects, by identity: the recent-services lists
    managers,     \* the ConfigManager instances created, with what self.config refers to
    returned,     \* <<>>, or <<r>>: the last ConfigManager call and what it returned
    \* ServiceMonitor (src/nssm_gui/utils/monitoring.py)
    monitor,      \* <<>>, or <<m>>: the ServiceMonitor with max_history, running, service_data
    awaiting,     \* the update_service_data coroutines waiting for the executor
    clock,        \* datetime.now(), counted in samples
    reply,        \* <<>>, or <<r>>: the last ServiceMonitor call and what it returned
    \* AsyncRunner (src/nssm_gui/utils/asyncqt.py)
    connections,  \* the slots connected to the task_done signal, in connection order
    tasks,        \* the coroutines submitted by run_coroutine, with their outcome
    queue,        \* the queued task_done emissions the GUI thread has not delivered
    invocations,  \* the callback invocations made so far, in order
    \* NSSmGUI, the main window (src/nssm_gui/ui/main_window.py)
    services,     \* table_model.services: the ServiceInfo list behind the table
    filter_text,  \* the text of filter_input
    status_filter, \* the current text of status_filter_combo
    proxy,        \* <<>> while the table shows table_model, or <<p>>: the filter proxy it shows
    selection,    \* the selected row of the table view, 0 when none is selected
    selected_service, \* <<>>, or <<r>>: what get_selected_service gave the running handler
    \* AddServiceDialog (src/nssm_gui/ui/dialogs.py) as the main window uses it
    dialog,       \* <<>>, or <<d>>: the open dialog, with its widgets
    obtained,     \* <<>>, or <<r>>: what get_service_config returned at the last OK
    started       \* the configure_service calls the main window has started

\* the variables of a configure_service run or a lifecycle operation
run_vars == <<impl, pc, edit, config, baseline, pending, calls, persisted,
              outcome, messages, failures>>
parser_vars == <<dump_output, parser, config_data, service_config, original>>
model_vars == <<module, kwargs, heap, errors>>
service_vars == <<run_vars, parser_vars, model_vars, operation>>
config_vars == <<dicts, lists, managers, returned>>
monitor_vars == <<monitor, awaiting, clock, reply>>
runner_vars == <<connections, tasks, queue, invocations>>
window_vars == <<services, filter_text, status_filter, proxy, selection,
                 selected_service>>
dialog_vars == <<dialog, obtained, started>>
utility_vars == <<config_vars, monitor_vars, runner_vars, window_vars,
                  dialog_vars>>
\* what the calls on one utility class leave alone
beyond_config == <<service_vars, monitor_vars, runner_vars, window_vars,
                   dialog_vars>>
beyond_monitor == <<service_vars, config_vars, runner_vars, window_vars,
                    dialog_vars>>
beyond_runner == <<service_vars, config_vars, monitor_vars, window_vars,
                   dialog_vars>>
beyond_window == <<service_vars, config_vars, monitor_vars, runner_vars,
                   dialog_vars>>
beyond_dialog == <<service_vars, config_vars, monitor_vars, runner_vars,
                   window_vars>>
vars == <<service_vars, utility_vars>>

(***************************************************************************)
(* Bounds of the model.                                                    *)
(***************************************************************************)
\* longest dependencies list drawn as an input
MaxDeps == 2
\* number of failing executor results in one run
MaxFailures == 1

(***************************************************************************)
(* ServiceConfig: the fields in declaration order (the order in which      *)
(* model_dump() enumerates them) and the default-constructed instance.     *)
(***************************************************************************)
Fields ==
    << "service_name", "application_path", "arguments", "app_directory",
       "app_exit", "display_name", "description", "object_name", "start",
       "type", "dependencies", "process_priority", "stdout_path",
       "stderr_path", "env_variables", "kill_console_delay",
       "kill_window_delay", "kill_threads_delay", "kill_process_tree",
       "throttle_delay", "restart_delay", "rotate_files", "rotate_online",
       "rotate_seconds", "rotate_bytes_low", "hook_share_output_handles",
       "hooks" >>

ServiceConfig ==
    [ service_name |-> "", application_path |-> "", arguments |-> "",
      app_directory |-> "", app_exit |-> "Restart", display_name |-> "",
      description |-> "", object_name |-> "LocalSystem",
      start |-> "SERVICE_AUTO_START", type |-> "SERVICE_WIN32_OWN_PROCESS",
      dependencies |-> <<>>, process_priority |-> "NORMAL_PRIORITY_CLASS",
      stdout_path |-> "", stderr_path |-> "", env_variables |-> <<>>,
      kill_console_delay |-> 0, kill_window_delay |-> 0,
      kill_threads_delay |-> 0, kill_process_tree |-> FALSE,
      throttle_delay |-> 0, restart_delay |-> 0, rotate_files |-> FALSE,
      rotate_online |-> FALSE, rotate_seconds |-> 0, rotate_bytes_low |-> 0,
      hook_share_output_handles |-> FALSE, hooks |-> <<>> ]

\* the dict-typed fields (Dict[str, str]) and the list-typed field
DictFields == {"env_variables", "hooks"}
CollectionFields == {"dependencies"} \cup DictFields
ScalarFields ==
    {Fields[i] : i \in 1..Len(Fields)} \ (CollectionFields \cup {"service_name"})

Range(s) == {s[i] : i \in 1..Len(s)}

\* a dict has unique keys
UniqueKeys(d) == \A i, j \in 1..Len(d) : d[i][1] = d[j][1] => i = j
DictsOver(keys, vals) ==
    {d \in UNION {[1..n -> keys \X vals] : n \in 0..Cardinality(keys)} :
        UniqueKeys(d)}

(***************************************************************************)
(* The values the inputs are drawn from: for every field its default and   *)
(* at least one other value the validators accept.                         *)
(***************************************************************************)
FieldValues ==
    [ service_name |-> {"Foo"},
      application_path |-> {"", "C:\\app\\test.exe", "C:\\app\\new.exe"},
      arguments |-> {"", "--x"},
      app_directory |-> {"", "C:\\app"},
      app_exit |-> {"Restart", "Exit"},
      display_name |-> {"", "Test Service"},
      description |-> {"", "A test service"},
      object_name |-> {"LocalSystem", "NetworkService"},
      start |-> {"SERVICE_AUTO_START", "SERVICE_DEMAND_START"},
      type |-> {"SERVICE_WIN32_OWN_PROCESS", "SERVICE_INTERACTIVE_PROCESS"},
      dependencies |-> UNION {[1..n -> {"svcA", "svcB"}] : n \in 0..MaxDeps},
      process_priority |-> {"NORMAL_PRIORITY_CLASS", "HIGH_PRIORITY_CLASS"},
      stdout_path |-> {"", "C:\\logs\\out.log"},
      stderr_path |-> {"", "C:\\logs\\err.log"},
      env_variables |-> DictsOver({"K1", "K2"}, {"v"}),
      kill_console_delay |-> {0, 1500},
      kill_window_delay |-> {0, 1500},
      kill_threads_delay |-> {0, 1500},
      kill_process_tree |-> BOOLEAN,
      throttle_delay |-> {0, 1500},
      restart_delay |-> {0, 1500},
      rotate_files |-> BOOLEAN,
      rotate_online |-> BOOLEAN,
      rotate_seconds |-> {0, 86400},
      rotate_bytes_low |-> {0, 1024},
      hook_share_output_handles |-> BOOLEAN,
      hooks |-> DictsOver({"Start_Pre", "Start_Post"}, {"hook.cmd"}) ]

\* c with one field other than the identifier set to any value of its domain
Variants(c) ==
    UNION {{[c EXCEPT ![f] = v] : v \in FieldValues[f]} :
              f \in ScalarFields \cup CollectionFields}

\* configurations get_service_config can have loaded for the installed
\* service Foo
LoadedConfigs ==
    Variants([ServiceConfig EXCEPT !.service_name = "Foo",
                                   !.application_path = "C:\\app\\test.exe"])

\* what the dialog of an edit returns for a loaded configuration: the
\* configuration itself or a single-field edit of it
EditTargets(base) == Variants(base)

\* targets of an install: the name and the path may have been left empty
InstallTargets ==
    UNION {Variants([ServiceConfig EXCEPT !.service_name = n,
                                          !.application_path = p]) :
              n \in {"", "Foo"}, p \in {"", "C:\\app\\test.exe"}}

(***************************************************************************)
(* Texts and invocations.  A text is the sequence of the parts it is       *)
(* concatenated from; an invocation is what run_nssm_command receives as   *)
(* args: a flat list of texts, or (src/main.py only) a list of such lists. *)
(***************************************************************************)
S(x) == <<x>>

Flat(args) == [flat |-> TRUE, args |-> args, sub |-> <<>>]
Nested(cmds) == [flat |-> FALSE, args |-> <<>>, sub |-> cmds]

\* a Python list of commands seen as one args value: [] is the empty flat list
CommandList(cmds) == IF Len(cmds) = 0 THEN Flat(<<>>) ELSE Nested(cmds)

\* '1' if value else '0'
Bool01(value) == IF value THEN "1" ELSE "0"

\* Python's != on field values: dicts compare without regard to order
PyNotEqual(f, a, b) == IF f \in DictFields THEN Range(a) # Range(b) ELSE a # b

(***************************************************************************)
(* src/main.py: NSSMGUI.build_set_command and the diff of                  *)
(* NSSMGUI.configure_service.                                              *)
(***************************************************************************)
\* fields of field_mapping whose value is passed as it is
PlainSettings ==
    [ arguments |-> "AppParameters", app_directory |-> "AppDirectory",
      display_name |-> "DisplayName", description |-> "Description",
      object_name |-> "ObjectName", start |-> "Start", type |-> "Type",
      process_priority |-> "AppPriority", stdout_path |-> "AppStdout",
      stderr_path |-> "AppStderr" ]
\* fields of field_mapping rendered with str(value)
IntSettings ==
    [ kill_console_delay |-> "KillConsoleDelay",
      kill_window_delay |-> "KillWindowDelay",
      kill_threads_delay |-> "KillThreadsDelay",
      throttle_delay |-> "ThrottleDelay", restart_delay |-> "RestartDelay",
      rotate_seconds |-> "RotateSeconds",
      rotate_bytes_low |-> "RotateBytesLow" ]
\* fields of field_mapping rendered as '1' / '0'
BoolSettings ==
    [ kill_process_tree |-> "KillProcessTree", rotate_files |-> "RotateFiles",
      rotate_online |-> "RotateOnline",
      hook_share_output_handles |-> "HookShareOutputHandles" ]

build_set_command(service_name, field, value) ==
    IF field \in DOMAIN PlainSettings
    THEN Flat(<<S("set"), S(service_name), S(PlainSettings[field]), S(value)>>)
    ELSE IF field = "app_exit"
    THEN Flat(<<S("set"), S(service_name), S("AppExit"), S("Default"), S(value)>>)
    ELSE IF field \in DOMAIN IntSettings
    THEN Flat(<<S("set"), S(service_name), S(IntSettings[field]),
                S(ToString(value))>>)
    ELSE IF field \in DOMAIN BoolSettings
    THEN Flat(<<S("set"), S(service_name), S(BoolSettings[field]),
                S(Bool01(value))>>)
    ELSE IF field = "dependencies"
    THEN CommandList([i \in 1..Len(value) |->
             <<S("set"), S(service_name), S("DependOnService"), S("+"),
               S(value[i])>>])
    ELSE IF field = "env_variables"
    THEN CommandList([i \in 1..Len(value) |->
             <<S("set"), S(service_name), S("AppEnvironmentExtra"),
               <<value[i][1], "=", value[i][2]>> >>])
    ELSE IF field = "hooks"
    THEN CommandList([i \in 1..Len(value) |->
             <<S("set"), S(service_name), <<"Hook_", value[i][1]>>,
               S(value[i][2])>>])
    ELSE \* any other field: a generic set under the model's own field name
         Flat(<<S("set"), S(service_name), S(field),
                S(IF value \in STRING THEN value ELSE ToString(value))>>)

\* a comparison against the defaults whatever baseline was passed
DefaultComparisonValue(old_config, field) == ServiceConfig[field]

\* the value a field of the target is compared with: the baseline's when an
\* old_config was passed, the default's otherwise
ComparisonValue(old_config, field) ==
    IF Len(old_config) > 0 /\ field \in DOMAIN old_config[1]
    THEN old_config[1][field]
    ELSE ServiceConfig[field]

\* the fields for which configure_service appends a command, in dump order
ChangedFields(cfg, old_config) ==
    SelectSeq(Fields,
              LAMBDA f : /\ f # "service_name"
                         /\ PyNotEqual(f, cfg[f], ComparisonValue(old_config, f)))

\* the diff, followed in any case by a command for the executable path
SettingsWithApplication(cfg, old_config) ==
    LET changed == ChangedFields(cfg, old_config)
    IN  [i \in 1..Len(changed) |->
            build_set_command(cfg.service_name, changed[i], cfg[changed[i]])]
        \o (IF cfg.application_path # ""
            THEN <<Flat(<<S("set"), S(cfg.service_name), S("Application"),
                          S(cfg.application_path)>>)>>
            ELSE <<>>)

\* settings_commands of configure_service: one entry per changed field
settings_commands(cfg, old_config) ==
    LET changed == ChangedFields(cfg, old_config)
    IN  [i \in 1..Len(changed) |->
            build_set_command(cfg.service_name, changed[i], cfg[changed[i]])]

InstallCommand(cfg) ==
    Flat(<<S("install"), S(cfg.service_name), S(cfg.application_path)>>)

\* the settings commands first and the install command last
InstallLastInvocations(cfg, e, old_config) ==
    settings_commands(cfg, old_config)
        \o (IF e THEN <<>> ELSE <<InstallCommand(cfg)>>)

\* the invocations of one NSSMGUI.configure_service run, in execution order
GuiInvocations(cfg, e, old_config) ==
    (IF e THEN <<>> ELSE <<InstallCommand(cfg)>>)
        \o settings_commands(cfg, old_config)

(***************************************************************************)
(* src/nssm_gui/service_manager.py: NSSmManager._build_config_commands and *)
(* the command list of NSSmManager.configure_service.                      *)
(***************************************************************************)
\* a command appended only when the value is truthy (a non-empty string)
IfSet(service_name, setting, value) ==
    IF value # "" THEN <<Flat(<<S("set"), S(service_name), S(setting), S(value)>>)>>
    ELSE <<>>

\* a group of commands appended as one nested list, and only when non-empty
Group(cmds) == IF Len(cmds) > 0 THEN <<Nested(cmds)>> ELSE <<>>

IntCommand(service_name, setting, value) ==
    Flat(<<S("set"), S(service_name), S(setting), S(ToString(value))>>)

BoolCommand(service_name, setting, value) ==
    Flat(<<S("set"), S(service_name), S(setting), S(Bool01(value))>>)

_build_config_commands(service_name, cfg) ==
    IfSet(service_name, "AppParameters", cfg.arguments)
    \o IfSet(service_name, "AppDirectory", cfg.app_directory)
    \o (IF cfg.app_exit # ""
        THEN <<Flat(<<S("set"), S(service_name), S("AppExit"), S("Default"),
                      S(cfg.app_exit)>>)>>
        ELSE <<>>)
    \o IfSet(service_name, "DisplayName", cfg.display_name)
    \o IfSet(service_name, "Description", cfg.description)
    \o IfSet(service_name, "ObjectName", cfg.object_name)
    \o IfSet(service_name, "Start", cfg.start)
    \o IfSet(service_name, "Type", cfg.type)
    \o IfSet(service_name, "AppPriority", cfg.process_priority)
    \o IfSet(service_name, "AppStdout", cfg.stdout_path)
    \o IfSet(service_name, "AppStderr", cfg.stderr_path)
    \o Group([i \in 1..Len(cfg.dependencies) |->
                <<S("set"), S(service_name), S("DependOnService"), S("+"),
                  S(cfg.dependencies[i])>>])
    \o Group([i \in 1..Len(cfg.env_variables) |->
                <<S("set"), S(service_name), S("AppEnvironmentExtra"),
                  <<cfg.env_variables[i][1], "=", cfg.env_variables[i][2]>> >>])
    \o << IntCommand(service_name, "KillConsoleDelay", cfg.kill_console_delay),
          IntCommand(service_name, "KillWindowDelay", cfg.kill_window_delay),
          IntCommand(service_name, "KillThreadsDelay", cfg.kill_threads_delay),
          BoolCommand(service_name, "KillProcessTree", cfg.kill_process_tree),
          IntCommand(service_name, "ThrottleDelay", cfg.throttle_delay),
          IntCommand(service_name, "RestartDelay", cfg.restart_delay),
          BoolCommand(service_name, "RotateFiles", cfg.rotate_files),
          BoolCommand(service_name, "RotateOnline", cfg.rotate_online),
          IntCommand(service_name, "RotateSeconds", cfg.rotate_seconds),
          IntCommand(service_name, "RotateBytesLow", cfg.rotate_bytes_low),
          BoolCommand(service_name, "HookShareOutputHandles",
                      cfg.hook_share_output_handles) >>
    \o Group([i \in 1..Len(cfg.hooks) |->
                <<S("set"), S(service_name), <<"Hook_", cfg.hooks[i][1]>>,
                  S(cfg.hooks[i][2])>>])

\* the command run before the settings: install, or in edit mode the
\* Application setting when the target has an executable path
LeadingCommand(cfg, e) ==
    IF ~e THEN <<InstallCommand(cfg)>>
    ELSE IF cfg.application_path # ""
    THEN <<Flat(<<S("set"), S(cfg.service_name), S("Application"),
                  S(cfg.application_path)>>)>>
    ELSE <<>>

\* the items NSSmManager.configure_service iterates over, in order
ManagerInvocations(cfg, e) ==
    LeadingCommand(cfg, e) \o _build_config_commands(cfg.service_name, cfg)

(***************************************************************************)
(* The command executor: the external wrapper process.  A run either       *)
(* cannot be launched (subprocess.run raises) or completes with an exit    *)
(* status and diagnostic text on stderr; a zero exit is modelled with      *)
(* empty stderr.                                                           *)
(***************************************************************************)
Succeeded == [launched |-> TRUE, returncode |-> 0, stderr |-> "", error |-> ""]

ExitFailures ==
    { [launched |-> TRUE, returncode |-> 1, stderr |-> d, error |-> ""] :
        d \in {"", "Can't open service!"} }

LaunchFailure ==
    [launched |-> FALSE, returncode |-> 0, stderr |-> "",
     error |-> "[WinError 2] The system cannot find the file specified"]

\* subprocess.run on an argument list that holds lists
ArgTypeError ==
    [launched |-> FALSE, returncode |-> 0, stderr |-> "",
     error |-> "expected str, bytes or os.PathLike object, not list"]

Failed(r) == ~r.launched \/ r.returncode # 0

\* the results the executor can produce for an invocation
ExecResults(inv, nfail) ==
    IF ~inv.flat THEN {ArgTypeError}
    ELSE {Succeeded}
         \cup (IF nfail < MaxFailures THEN ExitFailures \cup {LaunchFailure}
               ELSE {})

\* the wrapper tool persists a command that ran to exit status 0
Applied(inv, r) ==
    IF inv.flat /\ Len(inv.args) > 0 /\ ~Failed(r) THEN <<inv.args>> ELSE <<>>

Message(kind, title, text) == [kind |-> kind, title |-> title, text |-> text]

\* src/main.py run_nssm_command: the message boxes it shows for a result
GuiRunMessages(r) ==
    IF ~r.launched
    THEN <<Message("critical", "Error",
                   <<"Failed to run NSSM command: ", r.error>>)>>
    ELSE IF r.stderr # ""
    THEN <<Message("critical", "NSSM Error", <<r.stderr>>)>>
    ELSE <<>>

Raise(class, text) == [raised |-> TRUE, class |-> class, text |-> text]
Return == [raised |-> FALSE, class |-> "", text |-> <<>>]

\* NSSmManager.run_nssm_command: what the awaited call does for a result.
\* The RuntimeError raised for a non-zero exit is raised inside the try
\* block, so the except clause wraps it a second time.
run_nssm_command(r) ==
    IF ~r.launched
    THEN Raise("RuntimeError", <<"Error running NSSM command: ", r.error>>)
    ELSE IF r.returncode # 0
    THEN Raise("RuntimeError",
               <<"Error running NSSM command: ">>
               \o <<"NSSM command failed: ",
                    IF r.stderr # "" THEN r.stderr ELSE "Unknown error">>)
    ELSE Return

(***************************************************************************)
(* State machine.                                                          *)
(***************************************************************************)
\* no configure_service run and no lifecycle operation has started
Idle ==
    /\ impl = "NSSMGUI"
    /\ pc = "idle"
    /\ edit = FALSE
    /\ config = ServiceConfig
    /\ baseline = <<>>
    /\ pending = <<>>
    /\ calls = <<>>
    /\ persisted = <<>>
    /\ outcome = <<>>
    /\ messages = <<>>
    /\ failures = 0
    /\ operation = <<>>

\* no dump has been read
NothingRead ==
    /\ dump_output = ""
    /\ parser = ""
    /\ config_data = <<>>
    /\ service_config = <<>>
    /\ original = <<>>

\* no ServiceConfig has been constructed
NothingConstructed ==
    /\ module = "models"
    /\ kwargs = <<>>
    /\ heap = <<>>
    /\ errors = <<>>

(***************************************************************************)
(* src/nssm_gui/utils/config.py: ConfigManager.DEFAULT_CONFIG.  A dict or  *)
(* list object is known by its identity <<owner, key>>: owner 0 is the     *)
(* class, owner m the m-th ConfigManager instance.  Values are written as  *)
(* JSON text.                                                              *)
(***************************************************************************)
DefaultSections ==
    [ ui |-> [ auto_refresh |-> "true", refresh_interval |-> "5000",
               dark_mode |-> "false", confirm_actions |-> "true",
               show_details_panel |-> "true", font_size |-> "9" ],
      service |-> [ default_stdout_path |-> "${TEMP}\\${SERVICE_NAME}_stdout.log",
                    default_stderr_path |-> "${TEMP}\\${SERVICE_NAME}_stderr.log",
                    default_priority |-> "NORMAL_PRIORITY_CLASS",
                    default_exit_action |-> "Restart" ],
      advanced |-> [ enable_service_monitoring |-> "true",
                     monitoring_interval |-> "5000",
                     monitor_cpu_usage |-> "true",
                     monitor_memory_usage |-> "true",
                     backup_service_configs |-> "true",
                     backup_directory |-> "" ],
      service_templates |-> <<>> ]

\* the top-level dict of the class: each key refers to an object of the class
DEFAULT_CONFIG ==
    [k \in DOMAIN DefaultSections \cup {"recent_services"} |-> <<0, k>>]

\* the module is imported and no ConfigManager has been created
NoConfigManager ==
    /\ dicts = [id \in {<<0, k>> : k \in DOMAIN DefaultSections} |->
                   DefaultSections[id[2]]]
    /\ lists = [id \in {<<0, "recent_services">>} |-> <<>>]
    /\ managers = <<>>
    /\ returned = <<>>

\* no ServiceMonitor has been created
NoServiceMonitor ==
    /\ monitor = <<>>
    /\ awaiting = <<>>
    /\ clock = 0
    /\ reply = <<>>

\* the AsyncRunner has been created and nothing has been submitted
NothingSubmitted ==
    /\ connections = <<>>
    /\ tasks = <<>>
    /\ queue = <<>>
    /\ invocations = <<>>

\* the main window as NSSmGUI.init_ui leaves it: an empty table shown
\* without proxy, an empty filter, the status filter on its first item
WindowShown ==
    /\ services = <<>>
    /\ filter_text = ""
    /\ status_filter = "All"
    /\ proxy = <<>>
    /\ selection = 0
    /\ selected_service = <<>>

\* no dialog is open and none has been
NoDialog ==
    /\ dialog = <<>>
    /\ obtained = <<>>
    /\ started = <<>>

\* none of the utility classes has been used
UtilitiesUnused ==
    /\ NoConfigManager
    /\ NoServiceMonitor
    /\ NothingSubmitted
    /\ WindowShown
    /\ NoDialog

Init == Idle /\ NothingRead /\ NothingConstructed /\ UtilitiesUnused

Call(inv, r) == [inv |-> inv, result |-> r]

(***************************************************************************)
(* src/main.py: NSSMGUI.configure_service(config, edit, old_config).       *)
(***************************************************************************)
NSSMGUI_configure_service(cfg, e, old_config) ==
    /\ pc = "idle"
    /\ impl' = "NSSMGUI"
    /\ edit' = e
    /\ config' = cfg
    /\ baseline' = old_config
    /\ IF cfg.service_name = ""
       THEN /\ messages' = <<Message("warning", "Configuration Error",
                                     <<"Service Name is required.">>)>>
            /\ pending' = <<>>
            /\ pc' = "done"
       ELSE IF cfg.application_path = "" /\ ~e
       THEN /\ messages' = <<Message("warning", "Configuration Error",
                                     <<"Executable Path is required.">>)>>
            /\ pending' = <<>>
            /\ pc' = "done"
       ELSE /\ messages' = <<>>
            /\ pending' = GuiInvocations(cfg, e, old_config)
            /\ pc' = "running"
    /\ UNCHANGED <<calls, persisted, outcome, failures>>
    /\ UNCHANGED <<parser_vars, model_vars, operation>>
    /\ UNCHANGED utility_vars

\* add_service: configure_service(service_config)
GuiInstall ==
    /\ pc = "idle"
    /\ \E cfg \in InstallTargets : NSSMGUI_configure_service(cfg, FALSE, <<>>)

\* edit_service: configure_service(updated_config, edit=True, old_config=service_config)
GuiEdit ==
    /\ pc = "idle"
    /\ \E base \in LoadedConfigs : \E cfg \in EditTargets(base) :
        NSSMGUI_configure_service(cfg, TRUE, <<base>>)

\* one self.run_nssm_command(...) of configure_service; its return value is ignored
GuiRunCommand ==
    /\ impl = "NSSMGUI" /\ pc = "running" /\ Len(pending) > 0
    /\ \E r \in ExecResults(Head(pending), failures) :
          /\ calls' = Append(calls, Call(Head(pending), r))
          /\ persisted' = persisted \o Applied(Head(pending), r)
          /\ messages' = messages \o GuiRunMessages(r)
          /\ failures' = failures + (IF Failed(r) /\ Head(pending).flat THEN 1 ELSE 0)
    /\ pending' = Tail(pending)
    /\ UNCHANGED <<impl, pc, edit, config, baseline, outcome>>
    /\ UNCHANGED <<parser_vars, model_vars, operation>>
    /\ UNCHANGED utility_vars

SuccessMessage(cfg, e) ==
    Message("information", "Success",
            <<"Service '", cfg.service_name, "' has been ",
              IF e THEN "edited" ELSE "added", " successfully.">>)

NoChangesMessage(cfg) ==
    Message("information", "Success",
            <<"No changes for service '", cfg.service_name, "'.">>)

\* the closing message box of configure_service
GuiFinish ==
    /\ impl = "NSSMGUI" /\ pc = "running" /\ Len(pending) = 0
    /\ messages' =
          Append(messages,
                 IF ~edit \/ (edit /\ Len(settings_commands(config, baseline)) > 0)
                 THEN SuccessMessage(config, edit)
                 ELSE NoChangesMessage(config))
    /\ pc' = "done"
    /\ UNCHANGED <<impl, edit, config, baseline, pending, calls, persisted,
                   outcome, failures>>
    /\ UNCHANGED <<parser_vars, model_vars, operation>>
    /\ UNCHANGED utility_vars

(***************************************************************************)
(* src/nssm_gui: NSSmManager.configure_service(config, edit), started by   *)
(* NSSmGUI.add_service or, after get_service_config has loaded the         *)
(* baseline, by NSSmGUI.edit_service_get_config_callback.                  *)
(***************************************************************************)
NSSmManager_configure_service(cfg, e, loaded) ==
    /\ pc = "idle"
    /\ impl' = "NSSmManager"
    /\ edit' = e
    /\ config' = cfg
    /\ baseline' = loaded
    /\ pending' = ManagerInvocations(cfg, e)
    /\ pc' = "running"
    /\ UNCHANGED <<calls, persisted, outcome, messages, failures>>
    /\ UNCHANGED <<parser_vars, model_vars, operation>>
    /\ UNCHANGED utility_vars

ManagerInstall ==
    /\ pc = "idle"
    /\ \E cfg \in InstallTargets : NSSmManager_configure_service(cfg, FALSE, <<>>)

ManagerEdit ==
    /\ pc = "idle"
    /\ \E base \in LoadedConfigs : \E cfg \in EditTargets(base) :
        NSSmManager_configure_service(cfg, TRUE, <<base>>)

\* the exception never reaches the except clause: the loop goes on
ManagerAfterIgnoring(res, rest) ==
    [pc |-> "running", pending |-> rest, outcome |-> <<>>]

\* after an awaited run_nssm_command: an exception leaves the loop and is
\* re-raised as RuntimeError("Failed to configure service: ...")
ManagerAfter(res, rest) ==
    IF res.raised
    THEN [pc |-> "returned", pending |-> <<>>,
          outcome |-> <<Raise("RuntimeError",
                              <<"Failed to configure service: ">> \o res.text)>>]
    ELSE [pc |-> "running", pending |-> rest, outcome |-> <<>>]

\* one awaited self.run_nssm_command(...): the next command of the list, a
\* nested list being run element by element
ManagerRunCommand ==
    /\ impl = "NSSmManager" /\ pc = "running" /\ Len(pending) > 0
    /\ LET head == Head(pending)
           cmd  == Flat(IF head.flat THEN head.args ELSE Head(head.sub))
           rest == IF head.flat \/ Len(head.sub) = 1
                   THEN Tail(pending)
                   ELSE <<Nested(Tail(head.sub))>> \o Tail(pending)
       IN  \E r \in ExecResults(cmd, failures) :
              LET after == ManagerAfter(run_nssm_command(r), rest)
              IN  /\ calls' = Append(calls, Call(cmd, r))
                  /\ persisted' = persisted \o Applied(cmd, r)
                  /\ failures' = failures + (IF Failed(r) THEN 1 ELSE 0)
                  /\ pc' = after.pc
                  /\ pending' = after.pending
                  /\ outcome' = after.outcome
    /\ UNCHANGED <<impl, edit, config, baseline, messages>>
    /\ UNCHANGED <<parser_vars, model_vars, operation>>
    /\ UNCHANGED utility_vars

\* return True
ManagerReturn ==
    /\ impl = "NSSmManager" /\ pc = "running" /\ Len(pending) = 0
    /\ outcome' = <<Return>>
    /\ pc' = "returned"
    /\ UNCHANGED <<impl, edit, config, baseline, pending, calls, persisted,
                   messages, failures>>
    /\ UNCHANGED <<parser_vars, model_vars, operation>>
    /\ UNCHANGED utility_vars

\* NSSmGUI.add_service_callback / edit_service_callback(result, exception, name)
ManagerCallback ==
    /\ impl = "NSSmManager" /\ pc = "returned"
    /\ messages' =
          IF outcome[1].raised
          THEN <<Message("critical", "Error",
                         <<IF edit THEN "Failed to update service: "
                                   ELSE "Failed to create service: ">>
                         \o outcome[1].text)>>
          ELSE <<Message("information", "Success",
                         <<"Service '", config.service_name,
                           IF edit THEN "' updated successfully."
                                   ELSE "' created successfully.">>)>>
    /\ pc' = "done"
    /\ UNCHANGED <<impl, edit, config, baseline, pending, calls, persisted,
                   outcome, failures>>
    /\ UNCHANGED <<parser_vars, model_vars, operation>>
    /\ UNCHANGED utility_vars

Next ==
    \/ GuiInstall
    \/ GuiEdit
    \/ GuiRunCommand
    \/ GuiFinish
    \/ ManagerInstall
    \/ ManagerEdit
    \/ ManagerRunCommand
    \/ ManagerReturn
    \/ ManagerCallback

Spec == Init /\ [][Next]_vars

(***************************************************************************)
(* Vocabulary of the properties.                                           *)
(***************************************************************************)
IsInstall(inv) == inv.flat /\ Len(inv.args) > 0 /\ inv.args[1] = S("install")
IsSet(inv) == inv.flat /\ Len(inv.args) > 0 /\ inv.args[1] = S("set")

\* a set command of the given setting
IsSetOf(inv, setting) ==
    IsSet(inv) /\ Len(inv.args) >= 3 /\ inv.args[3] = setting

\* the invocations handed to the executor so far
Handed == [i \in 1..Len(calls) |-> calls[i].inv]

\* an edit run of NSSMGUI.configure_service with an old_config
GuiEditRun == impl = "NSSMGUI" /\ pc # "idle" /\ edit /\ Len(baseline) = 1

\* the fields in which two configurations differ
DiffFields(a, b) == {f \in DOMAIN a : a[f] # b[f]}

\* how a scalar value is written on a command line
Rendered(f, v) ==
    IF f \in DOMAIN BoolSettings THEN Bool01(v)
    ELSE IF f \in DOMAIN IntSettings THEN ToString(v)
    ELSE v

----------------------------------------------------------------------------
(* C1: NSSMGUI.configure_service(x, edit=True, old_config=x) with a valid  *)
(* x (non-empty identifier) hands no install and no set command to the     *)
(* executor at any point of the run, and it ends with the single           *)
(* 'No changes' message, not with the 'edited successfully' message.       *)
C1_NoOpLaw ==
    (GuiEditRun /\ config.service_name # "" /\ baseline = <<config>>)
    => /\ Len(calls) = 0
       /\ Len(pending) = 0
       /\ pc = "done" => /\ messages = <<NoChangesMessage(config)>>
                         /\ NoChangesMessage(config) # SuccessMessage(config, TRUE)

C1_Witness ==
    /\ GuiEditRun /\ pc = "done"
    /\ baseline = <<config>>
    /\ config.dependencies = <<"svcA", "svcB">>

----------------------------------------------------------------------------
----------------------------------------------------------------------------
\* NSSMGUI.configure_service returns before any command: no name, or an
\* install without executable path
Refused ==
    impl = "NSSMGUI"
    /\ (config.service_name = "" \/ (config.application_path = "" /\ ~edit))

(* C4: in install mode the first command executed is                       *)
(* install <identifier> <executablePath>, no later command is an install,  *)
(* so every set command comes after it, and a run that was not refused     *)
(* executes it; in edit mode no install command is executed.  Both         *)
(* implementations.                                                        *)
C4_InstallOrdering ==
    pc # "idle"
    => /\ edit => \A i \in 1..Len(calls) : ~IsInstall(calls[i].inv)
       /\ (~edit /\ Len(calls) > 0)
          => /\ calls[1].inv = Flat(<<S("install"), S(config.service_name),
                                      S(config.application_path)>>)
             /\ \A i \in 2..Len(calls) : ~IsInstall(calls[i].inv)
       /\ (~edit /\ pc = "done" /\ ~Refused) => Len(calls) > 0
       /\ Refused => Len(calls) = 0

C4_Witness ==
    /\ impl = "NSSMGUI" /\ pc = "done" /\ ~edit
    /\ Len(calls) >= 3
    /\ IsSet(calls[3].inv)

----------------------------------------------------------------------------
\* the commands of a list of invocations, nested lists spliced in
RECURSIVE Flattened(_)
Flattened(invs) ==
    IF Len(invs) = 0 THEN <<>>
    ELSE (IF Head(invs).flat THEN <<Head(invs).args>> ELSE Head(invs).sub)
         \o Flattened(Tail(invs))

(* C8: NSSmManager.configure_service starts its commands strictly in list  *)
(* order; after the first command that fails no further command is         *)
(* started; nothing else (no compensating command) is ever started; and    *)
(* the persisted state is exactly the effect of the successful prefix.     *)
C8_FailFast ==
    (impl = "NSSmManager" /\ pc # "idle")
    => LET plan == Flattened(ManagerInvocations(config, edit))
           n    == Len(calls)
           ok   == IF n > 0 /\ Failed(calls[n].result) THEN n - 1 ELSE n
       IN  /\ n <= Len(plan)
           /\ \A i \in 1..n : calls[i].inv = Flat(plan[i])
           /\ \A i \in 1..(n - 1) : ~Failed(calls[i].result)
           /\ ok < n => (Len(pending) = 0 /\ pc \in {"returned", "done"})
           /\ persisted = SubSeq(plan, 1, ok)
           /\ (pc \in {"returned", "done"} /\ ok = n) => n = Len(plan)

C8_Witness ==
    /\ impl = "NSSmManager" /\ pc = "done"
    /\ Len(calls) >= 3
    /\ Failed(calls[Len(calls)].result)
    /\ Len(persisted) = Len(calls) - 1
    /\ Len(calls) < Len(Flattened(ManagerInvocations(config, edit)))

----------------------------------------------------------------------------
\* the wrapper's setting name of every scalar field that has one
SettingNames ==
    PlainSettings @@ IntSettings @@ BoolSettings
    @@ [application_path |-> "Application", app_exit |-> "AppExit"]

(* C2: in the edit flow of the nssm_gui package a set command is issued    *)
(* for a scalar field only if the target's value differs from the loaded   *)
(* baseline's; when the accepted configuration equals the loaded one, no   *)
(* command is issued and no 'updated successfully' message is shown.       *)
C2_EditOnlyChangedFields ==
    (impl = "NSSmManager" /\ pc # "idle" /\ edit /\ Len(baseline) = 1)
    => /\ \A f \in DOMAIN SettingNames :
             (\E i \in 1..Len(calls) : IsSetOf(calls[i].inv, S(SettingNames[f])))
             => config[f] # baseline[1][f]
       /\ config = baseline[1]
          => /\ Len(calls) = 0
             /\ \A i \in 1..Len(messages) : messages[i].kind # "information"

----------------------------------------------------------------------------
FieldNames == {Fields[i] : i \in 1..Len(Fields)}

(* C5: every set command handed to the executor names the wrapper's        *)
(* setting, never the model's own field name; a changed executablePath in  *)
(* edit mode is written as set <identifier> Application <path>; booleans   *)
(* are written "1"/"0"; the exit action is written as the two tokens       *)
(* Default <action>.  Both implementations.                                *)
C5_FixedScalarMapping ==
    pc # "idle"
    => /\ \A i \in 1..Len(calls) :
             LET inv == calls[i].inv
             IN  IsSet(inv) =>
                   /\ \A f \in FieldNames : inv.args[3] # S(f)
                   /\ (\E f \in DOMAIN BoolSettings :
                          inv.args[3] = S(BoolSettings[f]))
                      => inv.args[4] \in {S("1"), S("0")}
                   /\ inv.args[3] = S("AppExit")
                      => inv.args = <<S("set"), S(config.service_name),
                                      S("AppExit"), S("Default"),
                                      S(config.app_exit)>>
       /\ (/\ pc = "done" /\ edit /\ Len(baseline) = 1
           /\ config.application_path # baseline[1].application_path
           /\ config.application_path # "")
          => \E i \in 1..Len(calls) :
                calls[i].inv = Flat(<<S("set"), S(config.service_name),
                                      S("Application"),
                                      S(config.application_path)>>)

----------------------------------------------------------------------------
(* C6: every invocation handed to the executor is one flat tuple           *)
(* (subcommand, identifier, args...) with subcommand install or set and    *)
(* at least one argument after the identifier: never an empty argument     *)
(* list, never a list that nests several commands.                         *)
C6_FlatInvocations ==
    \A i \in 1..Len(calls) :
        LET inv == calls[i].inv
        IN  /\ inv.flat
            /\ Len(inv.args) >= 3
            /\ inv.args[1] \in {S("install"), S("set")}
            /\ inv.args[2] = S(config.service_name)

----------------------------------------------------------------------------
\* the set invocations of a setting among those handed to the executor
HandedFor(IsOfSetting(_)) ==
    SelectSeq(Handed, LAMBDA inv : IsSet(inv) /\ Len(inv.args) >= 3
                                   /\ IsOfSetting(inv.args[3]))

(* C7: when a collection field of the target differs from the baseline of  *)
(* a completed NSSMGUI.configure_service run, the executor has received    *)
(* one separate set invocation per element of the target's collection, in  *)
(* the target's insertion order (two for target dependencies [svcA, svcB]  *)
(* over baseline [svcA]).                                                  *)
C7_CollectionRegeneration ==
    (GuiEditRun /\ pc = "done")
    => /\ config.dependencies # baseline[1].dependencies
          => HandedFor(LAMBDA t : t = S("DependOnService"))
             = [i \in 1..Len(config.dependencies) |->
                   Flat(<<S("set"), S(config.service_name),
                          S("DependOnService"), S("+"),
                          S(config.dependencies[i])>>)]
       /\ Range(config.env_variables) # Range(baseline[1].env_variables)
          => HandedFor(LAMBDA t : t = S("AppEnvironmentExtra"))
             = [i \in 1..Len(config.env_variables) |->
                   Flat(<<S("set"), S(config.service_name),
                          S("AppEnvironmentExtra"),
                          <<config.env_variables[i][1], "=",
                            config.env_variables[i][2]>> >>)]
       /\ Range(config.hooks) # Range(baseline[1].hooks)
          => HandedFor(LAMBDA t : t[1] = "Hook_")
             = [i \in 1..Len(config.hooks) |->
                   Flat(<<S("set"), S(config.service_name),
                          <<"Hook_", config.hooks[i][1]>>,
                          S(config.hooks[i][2])>>)]

----------------------------------------------------------------------------
\* the texts in which the caller is told how the run ended: the exception
\* of NSSmManager.configure_service, or the message boxes of NSSMGUI
ReportTexts ==
    IF impl = "NSSmManager" THEN {outcome[i].text : i \in 1..Len(outcome)}
    ELSE {messages[i].text : i \in 1..Len(messages)}

SuccessReported ==
    IF impl = "NSSmManager" THEN ~outcome[1].raised
    ELSE \E i \in 1..Len(messages) : messages[i].kind = "information"

(* C9: whenever a command of a configure_service run has failed, the       *)
(* caller gets a failure outcome and no success report, and that outcome   *)
(* identifies the failing command and carries the tool's diagnostic text   *)
(* unmodified.  Both implementations.                                      *)
C9_FailureOutcome ==
    pc = "done"
    => \A i \in 1..Len(calls) :
          (calls[i].inv.flat /\ Failed(calls[i].result))
          => /\ ~SuccessReported
             /\ calls[i].result.stderr # ""
                => \E t \in ReportTexts : calls[i].result.stderr \in Range(t)
             /\ \E t \in ReportTexts :
                   \A k \in 1..Len(calls[i].inv.args) :
                      \A j \in 1..Len(calls[i].inv.args[k]) :
                         calls[i].inv.args[k][j] \in Range(t)

----------------------------------------------------------------------------
\* what a caller can tell an error by: its exception class and the fixed
\* head of its message
ErrorKind(exc) == <<exc.class, exc.text[1]>>

(* C10: NSSmManager.run_nssm_command reports a launch failure as an error  *)
(* of another kind than a completed run with non-zero exit status.         *)
C10_DistinctFailureClasses ==
    impl = "NSSmManager"
    => \A i \in 1..Len(calls) :
          ~calls[i].result.launched
          => \A r \in ExitFailures :
                ErrorKind(run_nssm_command(calls[i].result))
                # ErrorKind(run_nssm_command(r))

(***************************************************************************)
(* Character-level text: the string operations of Python used by the dump  *)
(* parsers, the validators and get_service_status.                         *)
(***************************************************************************)
Char(s, i) == SubSeq(s, i, i)
Chars(s) == {Char(s, i) : i \in 1..Len(s)}

\* the characters str.strip() and shlex treat as whitespace
Whitespace == {" ", "\t", "\r", "\n"}
\* shlex.quotes
Quotes == {"\"", "'"}

Min(ns) == CHOOSE n \in ns : \A m \in ns : n <= m
Max(ns) == CHOOSE n \in ns : \A m \in ns : n >= m
\* the k-th smallest element of a set of numbers
Nth(ns, k) == CHOOSE n \in ns : Cardinality({m \in ns : m < n}) = k - 1

\* the positions from i on at which s has a character of chars (not of chars)
PositionsIn(s, i, chars) == {j \in i..Len(s) : Char(s, j) \in chars}
PositionsNotIn(s, i, chars) == {j \in i..Len(s) : Char(s, j) \notin chars}

\* s.lstrip(chars) / s.rstrip(chars) / s.strip(chars): chars is a set of
\* characters, all leading (trailing) occurrences of which are removed
lstrip(s, chars) ==
    LET kept == PositionsNotIn(s, 1, chars)
    IN  IF kept = {} THEN "" ELSE SubSeq(s, Min(kept), Len(s))

rstrip(s, chars) ==
    LET kept == PositionsNotIn(s, 1, chars)
    IN  IF kept = {} THEN "" ELSE SubSeq(s, 1, Max(kept))

strip(s, chars) ==
    LET kept == PositionsNotIn(s, 1, chars)
    IN  IF kept = {} THEN "" ELSE SubSeq(s, Min(kept), Max(kept))

\* s.startswith(prefix)
startswith(s, prefix) ==
    Len(s) >= Len(prefix) /\ SubSeq(s, 1, Len(prefix)) = prefix

\* the index of the first occurrence of the character c in s from i on, 0 if none
find(s, c, i) ==
    LET hits == PositionsIn(s, i, {c})
    IN  IF hits = {} THEN 0 ELSE Min(hits)

\* s.split(sep) for a one-character separator
split(s, sep) ==
    LET cuts == PositionsIn(s, 1, {sep})
        n == Cardinality(cuts)
    IN  [k \in 1..(n + 1) |->
            SubSeq(s, IF k = 1 THEN 1 ELSE Nth(cuts, k - 1) + 1,
                      IF k = n + 1 THEN Len(s) ELSE Nth(cuts, k) - 1)]

\* s.split(sep, 1)
split1(s, sep) ==
    LET i == find(s, sep, 1)
    IN  IF i = 0 THEN <<s>>
        ELSE <<SubSeq(s, 1, i - 1), SubSeq(s, i + 1, Len(s))>>

\* s.split(): the maximal runs of non-whitespace characters
Words(s) ==
    LET inside == PositionsNotIn(s, 1, Whitespace)
        starts == {j \in inside : j - 1 \notin inside}
        ends == {j \in inside : j + 1 \notin inside}
    IN  [k \in 1..Cardinality(starts) |->
            SubSeq(s, Nth(starts, k), Nth(ends, k))]

\* sep.join(parts)
RECURSIVE join(_, _)
join(parts, sep) ==
    IF Len(parts) = 0 THEN ""
    ELSE IF Len(parts) = 1 THEN parts[1]
    ELSE parts[1] \o sep \o join(Tail(parts), sep)

\* the string a text (a sequence of concatenated parts) stands for
Str(text) == join(text, "")

Digits == <<"0", "1", "2", "3", "4", "5", "6", "7", "8", "9">>
DigitValue(c) == CHOOSE d \in 0..9 : Digits[d + 1] = c

RECURSIVE Decimal(_, _)
Decimal(s, acc) ==
    IF Len(s) = 0 THEN acc
    ELSE Decimal(SubSeq(s, 2, Len(s)), 10 * acc + DigitValue(Char(s, 1)))

\* int(value): <<n>>, or <<>> for a ValueError; surrounding whitespace and a
\* sign are accepted
int(value) ==
    LET t == strip(value, Whitespace)
        signed == Len(t) > 0 /\ Char(t, 1) \in {"+", "-"}
        digits == IF signed THEN SubSeq(t, 2, Len(t)) ELSE t
    IN  IF Len(digits) > 0 /\ Chars(digits) \subseteq Range(Digits)
        THEN <<(IF signed /\ Char(t, 1) = "-" THEN -1 ELSE 1)
                    * Decimal(digits, 0)>>
        ELSE <<>>

(***************************************************************************)
(* shlex.shlex(line, posix=False) with whitespace_split = True and no      *)
(* commenters, read to the end: whitespace separates tokens; a quote       *)
(* character that starts a token opens a quoted token, which keeps both    *)
(* quote characters and ends right after the closing one; a quote inside   *)
(* a word is an ordinary character; the end of the line inside a quoted    *)
(* token raises ValueError("No closing quotation").                        *)
(* read_token reads the token that starts at or after position i and goes  *)
(* on behind it.                                                           *)
(***************************************************************************)
RECURSIVE read_token(_, _, _)
read_token(line, i, parts) ==
    LET rest == PositionsNotIn(line, i, Whitespace)
        start == Min(rest)
        close == find(line, Char(line, start), start + 1)
        stop == IF PositionsIn(line, start, Whitespace) = {} THEN Len(line)
                ELSE Min(PositionsIn(line, start, Whitespace)) - 1
    IN  IF rest = {} THEN [ok |-> TRUE, parts |-> parts]
        ELSE IF Char(line, start) \in Quotes
        THEN IF close = 0 THEN [ok |-> FALSE, parts |-> <<>>]
             ELSE read_token(line, close + 1,
                             Append(parts, SubSeq(line, start, close)))
        ELSE read_token(line, stop + 1,
                        Append(parts, SubSeq(line, start, stop)))

\* list(lexer)
shlex_split(line) == read_token(line, 1, <<>>)

(***************************************************************************)
(* ServiceConfig construction from keyword arguments: the class of         *)
(* src/main.py ("main") and the one of src/nssm_gui/models.py ("models").  *)
(* data is a Python dict, here a function from the supplied field names to *)
(* their values; a field that is not supplied takes its default, which is  *)
(* not validated.                                                          *)
(***************************************************************************)
Modules == {"main", "models"}

\* a dict with string keys: d[k] = v, and d.get(k, default)
Put(d, k, v) == (k :> v) @@ d
Get(d, k, default) == IF k \in DOMAIN d THEN d[k] ELSE default

\* the directories and files of the host the validators look at
Directories == {"C:\\", "C:\\app", "C:\\logs"}
Files == {"C:\\app.exe", "C:\\app\\test.exe", "C:\\app\\new.exe"}
isdir(path) == path \in Directories
isfile(path) == path \in Files

\* os.path.dirname on Windows: the drive and what precedes the last separator
dirname(path) ==
    LET seps == {"\\", "/"}
        drive == IF Len(path) >= 2 /\ Char(path, 2) = ":"
                 THEN SubSeq(path, 1, 2) ELSE ""
        p == SubSeq(path, Len(drive) + 1, Len(path))
        cut == {i \in 1..Len(p) : Char(p, i) \in seps}
        head == IF cut = {} THEN ""
                ELSE SubSeq(p, 1, CHOOSE i \in cut : \A j \in cut : j <= i)
    IN  drive \o (IF rstrip(head, seps) # "" THEN rstrip(head, seps) ELSE head)

Letters == Chars("ABCDEFGHIJKLMNOPQRSTUVWXYZabcdefghijklmnopqrstuvwxyz")

\* re.match('^' + one or more (or: first, then any number of) characters of
\* the class + '$', v): '$' matches at the end of the string and also just
\* before a newline that ends the string
MatchesToEnd(v, first, class, min_length) ==
    LET body == IF Len(v) > 0 /\ Char(v, Len(v)) = "\n"
                THEN SubSeq(v, 1, Len(v) - 1) ELSE v
    IN  /\ Len(body) >= min_length
        /\ Len(body) > 0 => Char(body, 1) \in first
        /\ Chars(body) \subseteq class

\* Field('', min_length=1, max_length=256) of service_name
service_name_Field(v) == Len(v) >= 1 /\ Len(v) <= 256

\* each validator: TRUE when it returns v, FALSE when it raises ValueError
validate_service_name(v) ==
    \/ v = ""
    \/ LET class == Letters \cup Range(Digits) \cup {"_", "-", "."}
       IN  MatchesToEnd(v, class, class, 1)

validate_application_path(mod, v) ==
    v = "" \/ mod = "models" \/ isfile(v)

validate_app_directory(v) == v = "" \/ isdir(v)

\* validate_stdout_path and validate_stderr_path
validate_output_path(v) ==
    v = "" \/ dirname(v) = "" \/ isdir(dirname(v))

valid_start_values ==
    {"SERVICE_AUTO_START", "SERVICE_DELAYED_AUTO_START",
     "SERVICE_DEMAND_START", "SERVICE_DISABLED"}
validate_start(v) == v \in valid_start_values

valid_priorities ==
    {"REALTIME_PRIORITY_CLASS", "HIGH_PRIORITY_CLASS",
     "ABOVE_NORMAL_PRIORITY_CLASS", "NORMAL_PRIORITY_CLASS",
     "BELOW_NORMAL_PRIORITY_CLASS", "IDLE_PRIORITY_CLASS"}
validate_priority(v) == v \in valid_priorities

validate_object_name(v) ==
    \/ v \in {"LocalSystem", "LocalService", "NetworkService"}
    \/ /\ find(v, "\\", 1) > 0
       /\ split1(v, "\\")[1] # ""
       /\ split1(v, "\\")[2] # ""

\* src/main.py only
validate_env_variables(v) ==
    \A i \in 1..Len(v) :
        MatchesToEnd(v[i][1], Letters \cup {"_"},
                     Letters \cup Range(Digits) \cup {"_"}, 1)

valid_actions == {"Restart", "Ignore", "Exit", "Suicide"}
\* src/main.py only
validate_app_exit(v) ==
    \/ /\ find(v, " ", 1) > 0
       /\ LET parts == Words(v)
          IN  Len(parts) = 2 /\ parts[1] = "Default" /\ parts[2] \in valid_actions
    \/ v \in valid_actions

valid_types == {"SERVICE_WIN32_OWN_PROCESS", "SERVICE_INTERACTIVE_PROCESS"}
\* src/main.py only
validate_type(v) == v \in valid_types

\* the supplied fields whose validation fails: the locations of the
\* ValidationError (all of them, not only the first)
FailedFields(mod, data) ==
    {f \in DOMAIN data :
        LET v == data[f]
        IN  CASE f = "service_name" ->
                    ~(service_name_Field(v) /\ validate_service_name(v))
              [] f = "application_path" -> ~validate_application_path(mod, v)
              [] f = "app_directory" -> ~validate_app_directory(v)
              [] f \in {"stdout_path", "stderr_path"} -> ~validate_output_path(v)
              [] f = "start" -> ~validate_start(v)
              [] f = "process_priority" -> ~validate_priority(v)
              [] f = "object_name" -> ~validate_object_name(v)
              [] f = "env_variables" -> mod = "main" /\ ~validate_env_variables(v)
              [] f = "app_exit" -> mod = "main" /\ ~validate_app_exit(v)
              [] f = "type" -> mod = "main" /\ ~validate_type(v)
              [] OTHER -> FALSE}

\* the instance constructor builds from data when no validation fails
Instance(data) ==
    [f \in Range(Fields) |-> IF f \in DOMAIN data THEN data[f] ELSE ServiceConfig[f]]

\* c.model_dump(): every field with its value
model_dump(c) == [f \in Range(Fields) |-> c[f]]

(***************************************************************************)
(* The dump parsers: NSSmManager._parse_nssm_dump with                     *)
(* _map_setting_to_config (src/nssm_gui/service_manager.py) and            *)
(* NSSMGUI.parse_nssm_dump (src/main.py).                                  *)
(***************************************************************************)
\* settings assigned as value.strip('"')
QuotedSettings ==
    [ AppParameters |-> "arguments", AppDirectory |-> "app_directory",
      DisplayName |-> "display_name", Description |-> "description",
      ObjectName |-> "object_name", AppStdout |-> "stdout_path",
      AppStderr |-> "stderr_path" ]
\* settings assigned as value.strip()
StrippedSettings ==
    [ Start |-> "start", Type |-> "type", AppPriority |-> "process_priority" ]
\* settings assigned as int(value), skipped on ValueError
ParsedIntSettings ==
    [ KillConsoleDelay |-> "kill_console_delay",
      KillWindowDelay |-> "kill_window_delay",
      KillThreadsDelay |-> "kill_threads_delay",
      ThrottleDelay |-> "throttle_delay", RestartDelay |-> "restart_delay",
      RotateSeconds |-> "rotate_seconds",
      RotateBytesLow |-> "rotate_bytes_low" ]
\* settings assigned as value.strip() == '1'
ParsedBoolSettings ==
    [ KillProcessTree |-> "kill_process_tree", RotateFiles |-> "rotate_files",
      RotateOnline |-> "rotate_online" ]

\* d[key] = value on a dict kept as a sequence of pairs: the value of an
\* existing key is replaced in place, a new key goes to the end
DictPut(d, key, value) ==
    IF \E i \in 1..Len(d) : d[i][1] = key
    THEN [i \in 1..Len(d) |-> IF d[i][1] = key THEN <<key, value>> ELSE d[i]]
    ELSE Append(d, <<key, value>>)

\* the branches both parsers share
MapSharedSetting(cfg, setting, value) ==
    IF setting \in DOMAIN QuotedSettings
    THEN Put(cfg, QuotedSettings[setting], strip(value, {"\""}))
    ELSE IF setting = "AppExit"
    THEN Put(cfg, "app_exit",
             lstrip(strip(value, {"\""}), Chars("Default ")))
    ELSE IF setting \in DOMAIN StrippedSettings
    THEN Put(cfg, StrippedSettings[setting], strip(value, Whitespace))
    ELSE IF setting = "DependOnService"
    THEN Put(cfg, "dependencies",
             Append(Get(cfg, "dependencies", <<>>), strip(value, {"\""})))
    ELSE IF setting = "AppEnvironmentExtra"
    THEN LET env_var == strip(value, {"\""})
         IN  IF find(env_var, "=", 1) > 0
             THEN Put(cfg, "env_variables",
                      DictPut(Get(cfg, "env_variables", <<>>),
                              split1(env_var, "=")[1], split1(env_var, "=")[2]))
             ELSE cfg
    ELSE IF setting \in DOMAIN ParsedIntSettings
    THEN IF int(value) # <<>>
         THEN Put(cfg, ParsedIntSettings[setting], int(value)[1])
         ELSE cfg
    ELSE IF setting \in DOMAIN ParsedBoolSettings
    THEN Put(cfg, ParsedBoolSettings[setting], strip(value, Whitespace) = "1")
    ELSE cfg

SharedSettings ==
    DOMAIN QuotedSettings \cup DOMAIN StrippedSettings
        \cup DOMAIN ParsedIntSettings \cup DOMAIN ParsedBoolSettings
        \cup {"AppExit", "DependOnService", "AppEnvironmentExtra"}

\* NSSmManager._map_setting_to_config(config, setting, value)
_map_setting_to_config(cfg, setting, value) ==
    IF setting \in SharedSettings
    THEN MapSharedSetting(cfg, setting, value)
    ELSE IF setting = "HookShareOutputHandles"
    THEN Put(cfg, "hook_share_output_handles", strip(value, Whitespace) = "1")
    ELSE IF startswith(setting, "Hook_")
    THEN LET hook_event == SubSeq(setting, Len("Hook_") + 1, Len(setting))
         IN  Put(cfg, "hooks",
                 DictPut(Get(cfg, "hooks", <<>>), hook_event,
                         strip(value, {"\""})))
    ELSE cfg

\* the elif chain of NSSMGUI.parse_nssm_dump: no HookShareOutputHandles
\* branch, and the hook event is what precedes the first '_' of the rest
GuiMapSetting(cfg, setting, value) ==
    IF setting \in SharedSettings
    THEN MapSharedSetting(cfg, setting, value)
    ELSE IF startswith(setting, "Hook_")
    THEN LET hook_event ==
                 split(SubSeq(setting, Len("Hook_") + 1, Len(setting)), "_")[1]
         IN  Put(cfg, "hooks",
                 DictPut(Get(cfg, "hooks", <<>>), hook_event,
                         strip(value, {"\""})))
    ELSE cfg

\* what the loop body does with the tokens of a line: by is the parser, cfg
\* the dict accumulated so far
ParseTokens(by, cfg, parts) ==
    IF Len(parts) < 4 THEN cfg
    ELSE LET command == parts[2]
             named == IF "service_name" \in DOMAIN cfg THEN cfg
                      ELSE Put(cfg, "service_name", parts[3])
         IN  IF command = "install"
             THEN LET path == Put(named, "application_path", parts[4])
                  IN  IF Len(parts) > 4
                      THEN Put(path, "arguments",
                               join(SubSeq(parts, 5, Len(parts)), " "))
                      ELSE path
             ELSE IF command = "set" /\ Len(parts) >= 5
             THEN LET setting == parts[4]
                      value == join(SubSeq(parts, 5, Len(parts)), " ")
                  IN  IF by = "NSSmManager"
                      THEN _map_setting_to_config(named, setting, value)
                      ELSE GuiMapSetting(named, setting, value)
             ELSE named

\* a line that fails to tokenize throws away what was accumulated
ParseLineDiscarding(by, cfg, line) ==
    LET lexed == shlex_split(line)
    IN  IF ~lexed.ok THEN <<>> ELSE ParseTokens(by, cfg, lexed.parts)

\* the body of the loop over the lines, for a line that is not blank: the
\* ValueError of the tokenizer is caught and the line skipped
ParseLine(by, cfg, line) ==
    LET lexed == shlex_split(line)
    IN  IF ~lexed.ok THEN cfg ELSE ParseTokens(by, cfg, lexed.parts)

\* dump_output.strip().split('\n')
Lines(dump) ==
    split(strip(dump, Whitespace), "\n")

\* the loop over the lines: blank lines are skipped.  (Comparing the dict
\* before and after a line makes TLC evaluate it line by line.)
RECURSIVE ParseLines(_, _, _)
ParseLines(by, cfg, lines) ==
    IF Len(lines) = 0 THEN cfg
    ELSE LET line == Head(lines)
             after == IF strip(line, Whitespace) = "" THEN cfg
                      ELSE ParseLine(by, cfg, line)
         IN  IF after = cfg THEN ParseLines(by, cfg, Tail(lines))
             ELSE ParseLines(by, after, Tail(lines))

_parse_nssm_dump(dump) == ParseLines("NSSmManager", <<>>, Lines(dump))
parse_nssm_dump(dump) == ParseLines("NSSMGUI", <<>>, Lines(dump))

\* the warning boxes of NSSMGUI.parse_nssm_dump: one per line that fails to
\* tokenize
ParsingErrors(dump) ==
    LET bad == SelectSeq(Lines(dump),
                         LAMBDA l : strip(l, Whitespace) # "" /\ ~shlex_split(l).ok)
    IN  [i \in 1..Len(bad) |->
            Message("warning", "Parsing Error",
                    <<"Failed to parse line:\n", bad[i],
                      "\nError: No closing quotation">>)]

(***************************************************************************)
(* Reading a service back: get_service_config of both implementations,     *)
(* applied to the dump the wrapper tool prints.                            *)
(***************************************************************************)
\* longest dump drawn as an input, in lines
MaxLines == 3

\* the lines dumps are made of: the program path, then a command
DumpLines ==
    { "nssm.exe install Foo \"C:\\app.exe\"",
      "nssm.exe install Foo C:\\app\\test.exe",
      "nssm.exe set Foo AppParameters \"--x\"",
      "nssm.exe set Foo Start SERVICE_DEMAND_START",
      "nssm.exe set Foo DependOnService svcA",
      "nssm.exe set Foo AppEnvironmentExtra K1=v",
      "nssm.exe set Foo KillConsoleDelay 1500",
      "nssm.exe set Foo HookShareOutputHandles 1",
      "nssm.exe set Foo Hook_Start_Pre \"pre.cmd\"",
      "nssm.exe set Foo Hook_Start_Post post.cmd",
      "nssm.exe set Foo Description \"unterminated",
      "nssm.exe set Foo",
      "nssm.exe set Bar Bogus 1",
      "" }

Dumps ==
    {join(ls, "\n") : ls \in UNION {[1..n -> DumpLines] : n \in 1..MaxLines}}

ParserInit ==
    /\ Idle /\ NothingConstructed /\ UtilitiesUnused
    /\ dump_output \in Dumps
    /\ parser = ""
    /\ config_data = <<>>
    /\ service_config = <<>>
    /\ original = <<>>

\* the implementation that re-reads a re-installed service is the one that
\* re-installed it
MayRead(by) == IF original = <<>> THEN TRUE ELSE original[1].by = by

\* the results of the dump command: it prints dump_output, or it fails
DumpResults == {Succeeded, LaunchFailure}

DumpCommand == Flat(<<S("dump"), S("Foo")>>)

\* ServiceConfig(config_data) if config_data else None; a ValidationError
\* gives None as well
Constructed(mod, data) ==
    IF data # <<>> /\ FailedFields(mod, data) = {}
    THEN <<Instance(data)>>
    ELSE <<>>

\* NSSmManager.get_service_config: any exception, of the dump command or of
\* the construction, is logged and None is returned
ManagerGetServiceConfig ==
    /\ parser = "" /\ MayRead("NSSmManager")
    /\ parser' = "NSSmManager"
    /\ \E r \in DumpResults :
          /\ calls' = Append(calls, Call(DumpCommand, r))
          /\ config_data' = IF Failed(r) THEN <<>>
                            ELSE _parse_nssm_dump(dump_output)
    /\ service_config' = Constructed("models", config_data')
    /\ UNCHANGED <<dump_output, original, impl, pc, edit, config, baseline,
                   pending, persisted, outcome, messages, failures,
                   model_vars, operation>>
    /\ UNCHANGED utility_vars

\* the warning box of a ValidationError: one line per failing field
ValidationWarning(data) ==
    Message("warning", "Validation Error",
            <<"Failed to parse service configuration:">>
            \o SelectSeq(Fields, LAMBDA f : f \in FailedFields("main", data)))

\* NSSMGUI.get_service_config: when the dump command fails,
\* run_nssm_command shows its error box and returns nothing, so None is
\* returned; a line that fails to tokenize and a ValidationError are shown
\* in warning boxes
GuiGetServiceConfig ==
    /\ parser = "" /\ MayRead("NSSMGUI")
    /\ parser' = "NSSMGUI"
    /\ \E r \in DumpResults :
          /\ calls' = Append(calls, Call(DumpCommand, r))
          /\ config_data' = IF Failed(r) THEN <<>>
                            ELSE parse_nssm_dump(dump_output)
          /\ messages' =
                IF Failed(r) THEN messages \o GuiRunMessages(r)
                ELSE messages \o ParsingErrors(dump_output)
                     \o (IF config_data' # <<>>
                            /\ FailedFields("main", config_data') # {}
                         THEN <<ValidationWarning(config_data')>>
                         ELSE <<>>)
    /\ service_config' = Constructed("main", config_data')
    /\ UNCHANGED <<dump_output, original, impl, pc, edit, config, baseline,
                   pending, persisted, outcome, failures, model_vars,
                   operation>>
    /\ UNCHANGED utility_vars

\* the install-mode commands an implementation synthesizes from a
\* configuration, one by one
InstallModeCommands(by, cfg) ==
    Flattened(IF by = "NSSmManager" THEN ManagerInvocations(cfg, FALSE)
              ELSE GuiInvocations(cfg, FALSE, <<>>))

\* a command as a dump line: <program> <subcommand> <identifier> <args...>
DumpLine(args) ==
    join(<<"nssm.exe">> \o [i \in 1..Len(args) |-> Str(args[i])], " ")

\* The service is installed again from the configuration that was read:
\* the wrapper tool has applied the install-mode commands synthesized from
\* it, and its dump now lists exactly these commands.  NSSMGUI synthesizes
\* no command without a name or without an executable path.
Reinstall ==
    /\ parser # "" /\ service_config # <<>> /\ original = <<>>
    /\ parser = "NSSMGUI"
       => /\ service_config[1].service_name # ""
          /\ service_config[1].application_path # ""
    /\ LET cmds == InstallModeCommands(parser, service_config[1])
       IN  dump_output' = join([i \in 1..Len(cmds) |-> DumpLine(cmds[i])], "\n")
    /\ original' = <<[by |-> parser, config |-> service_config[1]]>>
    /\ parser' = ""
    /\ config_data' = <<>>
    /\ service_config' = <<>>
    /\ UNCHANGED <<run_vars, model_vars, operation>>
    /\ UNCHANGED utility_vars

ParserNext ==
    \/ ManagerGetServiceConfig
    \/ GuiGetServiceConfig
    \/ Reinstall

ParserSpec == ParserInit /\ [][ParserNext]_vars

(***************************************************************************)
(* Vocabulary of the properties of the dump parsers.                       *)
(***************************************************************************)
\* the fields a synthesized command writes
WrittenFields(args) ==
    IF Len(args) < 3 THEN {}
    ELSE IF args[1] = S("install") THEN {"application_path"}
    ELSE {f \in DOMAIN SettingNames : args[3] = S(SettingNames[f])}
         \cup (IF args[3] = S("DependOnService") THEN {"dependencies"} ELSE {})
         \cup (IF args[3] = S("AppEnvironmentExtra") THEN {"env_variables"}
               ELSE {})
         \cup (IF Len(args[3]) = 2 /\ args[3][1] = "Hook_" THEN {"hooks"}
               ELSE {})

\* the fields for which the install-mode command list has a command
EmittedFields(by, cfg) ==
    LET cmds == InstallModeCommands(by, cfg)
    IN  UNION {WrittenFields(cmds[i]) : i \in 1..Len(cmds)}

\* the tokens of a line that tokenizes, <<>> otherwise
Tokens(line) == shlex_split(line).parts

\* a line is a set line of a hook setting
IsHookLine(line) ==
    LET lexed == shlex_split(line)
    IN  /\ lexed.ok /\ Len(lexed.parts) >= 5
        /\ lexed.parts[2] = "set"
        /\ startswith(lexed.parts[4], "Hook_")

\* a setting name neither branch of the parser's dispatch recognizes
Unrecognized(by, setting) ==
    /\ setting \notin SharedSettings
    /\ ~startswith(setting, "Hook_")
    /\ by = "NSSmManager" => setting # "HookShareOutputHandles"

\* the dump command printed dump_output and the parser has read it
DumpRead == parser # "" /\ ~Failed(calls[Len(calls)].result)

\* a line with a recoverable error: it fails to tokenize, has fewer than 4
\* tokens, or is a set line that names an unrecognized setting
Unparsed(by, line) ==
    LET lexed == shlex_split(line)
    IN  \/ ~lexed.ok
        \/ Len(lexed.parts) < 4
        \/ /\ lexed.parts[2] = "set" /\ Len(lexed.parts) >= 5
           /\ Unrecognized(by, lexed.parts[4])

----------------------------------------------------------------------------
(* C11: when a service is installed again from the configuration M that a  *)
(* dump parsed to, and the dump of the install-mode commands synthesized   *)
(* from M is parsed by the same implementation, the result is a            *)
(* configuration equal to M on every field for which a command was         *)
(* emitted.  Both implementations.                                         *)
C11_DumpRoundTrip ==
    (original # <<>> /\ DumpRead)
    => /\ service_config # <<>>
       /\ \A f \in EmittedFields(original[1].by, original[1].config) :
             ~PyNotEqual(f, Instance(config_data)[f], original[1].config[f])

----------------------------------------------------------------------------
\* the dump of the scenario
ScenarioDump ==
    join(<<"nssm.exe install Foo \"C:\\app.exe\"",
           "nssm.exe set Foo AppParameters \"--x\"",
           "nssm.exe set Foo Start SERVICE_DEMAND_START">>, "\n")

(* C12: parsing the scenario dump yields identifier Foo, executablePath    *)
(* C:\app.exe, arguments --x and start mode SERVICE_DEMAND_START; the      *)
(* executablePath of any parsed dump is stored without surrounding double  *)
(* quotes.  Both parsers.                                                  *)
C12_ScenarioDump ==
    DumpRead
    => /\ dump_output = ScenarioDump
          => /\ Get(config_data, "service_name", "") = "Foo"
             /\ Get(config_data, "application_path", "") = "C:\\app.exe"
             /\ Get(config_data, "arguments", "") = "--x"
             /\ Get(config_data, "start", "") = "SERVICE_DEMAND_START"
       /\ LET path == Get(config_data, "application_path", "")
          IN  path = strip(path, {"\""})

----------------------------------------------------------------------------
(* C13: the lines of a dump that fail to tokenize, have fewer than 4       *)
(* tokens or name an unrecognized setting do not abort the parse and have  *)
(* no effect on the field assignments: the parsed field map is that of the *)
(* dump without these lines, apart from the identifier, which is taken     *)
(* from the first line that has at least 4 tokens.  Both parsers.          *)
C13_RecoverableLines ==
    DumpRead
    => LET lines == Lines(dump_output)
           kept  == SelectSeq(lines, LAMBDA l : ~Unparsed(parser, l))
           named == SelectSeq(lines, LAMBDA l : /\ shlex_split(l).ok
                                                /\ Len(Tokens(l)) >= 4)
           clean == ParseLines(parser, <<>>, kept)
       IN  /\ DOMAIN config_data \ {"service_name"}
                = DOMAIN clean \ {"service_name"}
           /\ \A f \in DOMAIN clean \ {"service_name"} :
                 config_data[f] = clean[f]
           /\ IF Len(named) = 0 THEN "service_name" \notin DOMAIN config_data
              ELSE Get(config_data, "service_name", "") = Tokens(named[1])[3]

C13_Witness ==
    /\ DumpRead /\ parser = "NSSMGUI"
    /\ dump_output =
          join(<<"nssm.exe set Bar Bogus 1",
                 "nssm.exe set Foo Description \"unterminated",
                 "nssm.exe set Foo Start SERVICE_DEMAND_START">>, "\n")
    /\ DOMAIN config_data = {"service_name", "start"}
    /\ config_data.service_name = "Bar"
    /\ Len(messages) = 1

----------------------------------------------------------------------------
(* C14: for every set line of a dump whose setting is Hook_<event>, the    *)
(* parsed hooks map has the key <event> (all of the setting name after     *)
(* the prefix) and, unless a later line names the same setting, the        *)
(* line's quote-stripped value as its action.  Both parsers.               *)
C14_HookParsing ==
    DumpRead
    => LET hl    == SelectSeq(Lines(dump_output), IsHookLine)
           event(l) == SubSeq(Tokens(l)[4], Len("Hook_") + 1, Len(Tokens(l)[4]))
           value(l) == strip(join(SubSeq(Tokens(l), 5, Len(Tokens(l))), " "),
                             {"\""})
           hooks == Get(config_data, "hooks", <<>>)
       IN  \A i \in 1..Len(hl) :
              /\ \E k \in 1..Len(hooks) : hooks[k][1] = event(hl[i])
              /\ (\A j \in (i + 1)..Len(hl) : event(hl[j]) # event(hl[i]))
                 => <<event(hl[i]), value(hl[i])>> \in Range(hooks)

(***************************************************************************)
(* Constructing ServiceConfig instances: the constructor of both classes,  *)
(* the reconstruction from model_dump(), and                               *)
(* TemplateManagerDialog.use_template (src/nssm_gui/ui/templates.py).      *)
(* heap holds the instances by object identity: heap[i] is the i-th        *)
(* instance constructed, with its class and the values of its fields.      *)
(***************************************************************************)
\* most instances constructed in one behaviour
MaxObjects == 2
\* most keyword arguments of a constructor call drawn as an input
MaxKwargs == 1

\* the values supplied for a field: valid ones and invalid ones
SuppliedValues ==
    [ service_name |-> {"Foo", "my-svc.1", "Foo\n", "Fo o", "\nFoo", "a/b", ""},
      start |-> {"SERVICE_DEMAND_START", "SERVICE_DISABLED", "BOGUS"},
      process_priority |-> {"HIGH_PRIORITY_CLASS", "BOGUS"},
      app_exit |-> {"Exit", "Default Restart", "Bogus"},
      type |-> {"SERVICE_INTERACTIVE_PROCESS", "BOGUS"} ]

\* the keyword arguments of a constructor call
Kwargs ==
    UNION {{data \in [fs -> UNION {SuppliedValues[f] : f \in fs}] :
                \A f \in fs : data[f] \in SuppliedValues[f]} :
           fs \in {s \in SUBSET DOMAIN SuppliedValues : Cardinality(s) <= MaxKwargs}}

ModelInit ==
    /\ Idle /\ NothingRead /\ UtilitiesUnused
    /\ module \in Modules
    /\ kwargs = <<>>
    /\ heap = <<>>
    /\ errors = <<>>

Object(mod, data) == [cls |-> mod, fields |-> Instance(data)]

Operation(name, of) == <<[name |-> name, of |-> of]>>

\* use_template has constructed its instance and not yet cleared the name
InUseTemplate ==
    IF operation = <<>> THEN FALSE ELSE operation[1].name = "use_template"

\* ServiceConfig(data) of class mod, called by op: the new instance, or the
\* ValidationError with the locations of all failing fields
Construction(mod, data, op) ==
    /\ module' = mod
    /\ kwargs' = data
    /\ operation' = op
    /\ IF FailedFields(mod, data) = {}
       THEN heap' = Append(heap, Object(mod, data)) /\ errors' = <<>>
       ELSE heap' = heap /\ errors' = <<FailedFields(mod, data)>>
    /\ UNCHANGED <<run_vars, parser_vars>>
    /\ UNCHANGED utility_vars

\* the constructor called with the keyword arguments data
Construct ==
    /\ ~InUseTemplate /\ Len(heap) < MaxObjects
    /\ \E mod \in Modules, data \in Kwargs :
          Construction(mod, data, Operation("ServiceConfig", 0))

\* the constructor called with the items of c.model_dump() as keyword
\* arguments, for an instance c
Reconstruct ==
    /\ ~InUseTemplate /\ Len(heap) < MaxObjects
    /\ \E i \in 1..Len(heap) :
          Construction(heap[i].cls, model_dump(heap[i].fields),
                       Operation("model_dump", i))

\* use_template, up to the construction of config from the items of
\* template_data; a ValidationError ends it with the error box
UseTemplateConstruct ==
    /\ ~InUseTemplate /\ Len(heap) < MaxObjects
    /\ \E data \in Kwargs :
          Construction("models", data,
                       IF FailedFields("models", data) = {}
                       THEN Operation("use_template", Len(heap) + 1)
                       ELSE Operation("Failed to use template", 0))

\* use_template, the next statement: config.service_name = "", an attribute
\* assignment on the instance (not validated), then the dialog is shown
UseTemplateClear ==
    /\ InUseTemplate
    /\ heap' = [heap EXCEPT ![operation[1].of].fields.service_name = ""]
    /\ operation' = Operation("AddServiceDialog", operation[1].of)
    /\ UNCHANGED <<module, kwargs, errors, run_vars, parser_vars>>
    /\ UNCHANGED utility_vars

ModelNext ==
    \/ Construct
    \/ Reconstruct
    \/ UseTemplateConstruct
    \/ UseTemplateClear

ModelSpec == ModelInit /\ [][ModelNext]_vars

----------------------------------------------------------------------------
\* the characters an identifier may have according to the specification
IdentifierCharacters == Letters \cup Range(Digits) \cup {"_", ".", "-"}

\* the last operation was a constructor call of the given kind
Called(name) ==
    IF operation = <<>> THEN FALSE ELSE operation[1].name = name

(* C15: constructing a ServiceConfig with a service_name that has a        *)
(* character outside [A-Za-z0-9_.-], whitespace and line terminators       *)
(* included, at any position, fails with a validation error that names     *)
(* service_name, and no constructor call stores such a string as the       *)
(* identifier of its instance.                                             *)
C15_IdentifierValidation ==
    (/\ Called("ServiceConfig")
     /\ "service_name" \in DOMAIN kwargs
     /\ ~(Chars(kwargs.service_name) \subseteq IdentifierCharacters))
    => /\ errors # <<>>
       /\ "service_name" \in errors[1]

----------------------------------------------------------------------------
\* the exit actions, with and without the Default qualifier
ExitActions == valid_actions \cup {"Default " \o a : a \in valid_actions}

(* C16: in every constructed ServiceConfig, of either class, start is one  *)
(* of the 4 start modes, process_priority one of the 6 priority classes,   *)
(* app_exit one of Restart, Ignore, Exit, Suicide (optionally with the     *)
(* Default qualifier) and type one of SERVICE_WIN32_OWN_PROCESS and        *)
(* SERVICE_INTERACTIVE_PROCESS; a constructor call with another value for  *)
(* one of these fields fails.                                              *)
C16_EnumFields ==
    /\ \A i \in 1..Len(heap) :
          /\ heap[i].fields.start \in valid_start_values
          /\ heap[i].fields.process_priority \in valid_priorities
          /\ heap[i].fields.app_exit \in ExitActions
          /\ heap[i].fields.type \in valid_types
    /\ (/\ Called("ServiceConfig")
        /\ \/ Get(kwargs, "start", "SERVICE_AUTO_START") \notin valid_start_values
           \/ Get(kwargs, "process_priority", "NORMAL_PRIORITY_CLASS")
                 \notin valid_priorities
           \/ Get(kwargs, "app_exit", "Restart") \notin ExitActions
           \/ Get(kwargs, "type", "SERVICE_WIN32_OWN_PROCESS") \notin valid_types)
       => errors # <<>>

----------------------------------------------------------------------------
(* C17: for every constructed ServiceConfig c, the default-constructed one *)
(* with its empty identifier included, constructing from the items of     *)
(* c.model_dump() succeeds and gives an instance equal to c.               *)
C17_LosslessSerialization ==
    Called("model_dump")
    => /\ errors = <<>>
       /\ heap[Len(heap)] = heap[operation[1].of]

----------------------------------------------------------------------------
(* C18: no step of the program changes a field of a ServiceConfig instance *)
(* that has been constructed: every instance keeps its field values.       *)
C18_Immutability ==
    [][\A i \in 1..Len(heap) : heap'[i] = heap[i]]_vars

(***************************************************************************)
(* src/nssm_gui/service_manager.py: the lifecycle operations of            *)
(* NSSmManager: remove_service, start_service, stop_service,               *)
(* restart_service and get_service_status.  As in configure_service, each  *)
(* awaited command is a step.                                              *)
(***************************************************************************)
ServiceNames == {"Foo", "Bar", "TestService"}

\* the results of a command of a lifecycle operation
LifecycleResults == {Succeeded, LaunchFailure} \cup ExitFailures

\* a coroutine that returns value (none of these operations raises)
Result(value) == [raised |-> FALSE, value |-> value]

StopCommand(service_name) == Flat(<<S("stop"), S(service_name)>>)
StartCommand(service_name) == Flat(<<S("start"), S(service_name)>>)
RemoveCommand(service_name) ==
    Flat(<<S("remove"), S(service_name), S("confirm")>>)

\* the named operation is waiting for a command
Running(name) ==
    IF operation = <<>> THEN FALSE
    ELSE operation[1].name = name /\ pc = "running"

\* an operation is called: cmds are the commands it may run, in order
Begin(name, service_name, cmds) ==
    /\ pc = "idle"
    /\ impl' = "NSSmManager"
    /\ operation' = Operation(name, service_name)
    /\ pending' = cmds
    /\ pc' = "running"
    /\ UNCHANGED <<edit, config, baseline, calls, persisted, outcome,
                   messages, failures, parser_vars, model_vars>>
    /\ UNCHANGED utility_vars

remove_service(service_name) ==
    Begin("remove_service", service_name,
          <<StopCommand(service_name), RemoveCommand(service_name)>>)

start_service(service_name) ==
    Begin("start_service", service_name, <<StartCommand(service_name)>>)

stop_service(service_name) ==
    Begin("stop_service", service_name, <<StopCommand(service_name)>>)

restart_service(service_name) ==
    Begin("restart_service", service_name,
          <<StopCommand(service_name), StartCommand(service_name)>>)

CallOperation ==
    \E service_name \in ServiceNames :
        \/ remove_service(service_name)
        \/ start_service(service_name)
        \/ stop_service(service_name)
        \/ restart_service(service_name)

\* the exception of the stop command ends the operation
RemoveAfterAborting(res, rest) ==
    IF Len(rest) > 0 /\ ~res.raised
    THEN [pc |-> "running", pending |-> rest, outcome |-> <<>>]
    ELSE [pc |-> "done", pending |-> <<>>, outcome |-> <<Result(~res.raised)>>]

\* remove_service after an awaited run_nssm_command: the exception of the
\* stop command is ignored (inner try), the remove command decides the
\* result (outer try: True, or False for any exception)
RemoveAfter(res, rest) ==
    IF Len(rest) > 0
    THEN [pc |-> "running", pending |-> rest, outcome |-> <<>>]
    ELSE [pc |-> "done", pending |-> <<>>, outcome |-> <<Result(~res.raised)>>]

\* start_service and stop_service: True, or False for any exception
StartStopAfter(res, rest) ==
    [pc |-> "done", pending |-> <<>>, outcome |-> <<Result(~res.raised)>>]

\* restart_service: stop_service and start_service return their result,
\* which is not looked at; True
RestartAfter(res, rest) ==
    IF Len(rest) > 0
    THEN [pc |-> "running", pending |-> rest, outcome |-> <<>>]
    ELSE [pc |-> "done", pending |-> <<>>, outcome |-> <<Result(TRUE)>>]

\* one awaited self.run_nssm_command(...) of a lifecycle operation
LifecycleRun(after) ==
    /\ calls' = Append(calls, Call(Head(pending), after.result))
    /\ persisted' = persisted \o Applied(Head(pending), after.result)
    /\ pc' = after.pc
    /\ pending' = after.pending
    /\ outcome' = after.outcome
    /\ UNCHANGED <<impl, edit, config, baseline, messages, failures,
                   operation, parser_vars, model_vars>>
    /\ UNCHANGED utility_vars

RemoveRunCommand ==
    /\ Running("remove_service")
    /\ \E r \in LifecycleResults :
          LifecycleRun([result |-> r]
                       @@ RemoveAfter(run_nssm_command(r), Tail(pending)))

StartStopRunCommand ==
    /\ Running("start_service") \/ Running("stop_service")
    /\ \E r \in LifecycleResults :
          LifecycleRun([result |-> r]
                       @@ StartStopAfter(run_nssm_command(r), Tail(pending)))

RestartRunCommand ==
    /\ Running("restart_service")
    /\ \E r \in LifecycleResults :
          LifecycleRun([result |-> r]
                       @@ RestartAfter(run_nssm_command(r), Tail(pending)))

(***************************************************************************)
(* get_service_status: one run of sc query <service_name>.                 *)
(***************************************************************************)
\* what sc query prints
ScOutputs ==
    { join(<<"", "SERVICE_NAME: TestService",
             "        TYPE               : 10  WIN32_OWN_PROCESS",
             "        STATE              : 4  RUNNING",
             "                                (STOPPABLE, NOT_PAUSABLE, ACCEPTS_SHUTDOWN)",
             "        WIN32_EXIT_CODE    : 0  (0x0)", "">>, "\n"),
      join(<<"SERVICE_NAME: TestService",
             "        STATE              : 1  STOPPED">>, "\n"),
      "STATE : 2  START_PENDING",
      "SERVICE_NAME: TestService\n        TYPE               : 10  WIN32_OWN_PROCESS",
      "" }

\* the results of the sc query run: it cannot be launched, or it exits
\* with a status and its output
ScResults ==
    { [launched |-> FALSE, returncode |-> 0, stdout |-> ""] }
    \cup { [launched |-> TRUE, returncode |-> c, stdout |-> out] :
             c \in {0, 1060}, out \in ScOutputs }

\* sub in s
Contains(s, sub) ==
    \E i \in 1..(Len(s) - Len(sub) + 1) : SubSeq(s, i, i + Len(sub) - 1) = sub

\* line.strip().split(':')[1].strip().split() of a line, <<>> when the line
\* has no ':'
StateParts(line) ==
    LET parts == split(strip(line, Whitespace), ":")
    IN  IF Len(parts) > 1 THEN Words(strip(parts[2], Whitespace)) ELSE <<>>

\* the loop over the lines of stdout: the first line that has 'STATE', a
\* ':' and a word after it gives the result
StateOf(stdout) ==
    LET lines == split(stdout, "\n")
        found == {i \in 1..Len(lines) : /\ Contains(lines[i], "STATE")
                                        /\ Len(StateParts(lines[i])) > 0}
    IN  IF found = {} THEN "Unknown"
        ELSE StateParts(lines[Min(found)])[1]

\* what get_service_status returns for a result of the run
StatusOf(r) ==
    IF ~r.launched THEN "Error"
    ELSE IF r.returncode # 0 THEN "Unknown"
    ELSE StateOf(r.stdout)

get_service_status(service_name) ==
    /\ pc = "idle"
    /\ impl' = "NSSmManager"
    /\ operation' = Operation("get_service_status", service_name)
    /\ \E r \in ScResults :
          /\ calls' = Append(calls,
                             Call(Flat(<<S("sc"), S("query"), S(service_name)>>), r))
          /\ outcome' = <<Result(StatusOf(r))>>
    /\ pc' = "done"
    /\ UNCHANGED <<edit, config, baseline, pending, persisted, messages,
                   failures, parser_vars, model_vars>>
    /\ UNCHANGED utility_vars

GetServiceStatus ==
    \E service_name \in ServiceNames : get_service_status(service_name)

LifecycleNext ==
    \/ CallOperation
    \/ RemoveRunCommand
    \/ StartStopRunCommand
    \/ RestartRunCommand
    \/ GetServiceStatus

LifecycleSpec == Init /\ [][LifecycleNext]_vars

----------------------------------------------------------------------------
(* C19: NSSmManager.remove_service(name) issues stop <name> first and then *)
(* remove <name> confirm, once each and nothing else; the remove command   *)
(* is issued also when the stop command fails; the operation returns, and  *)
(* never raises, True if and only if the remove command succeeded.         *)
C19_RemoveService ==
    Called("remove_service")
    => LET name == operation[1].of
           cmds == <<StopCommand(name), RemoveCommand(name)>>
       IN  /\ Len(calls) <= 2
           /\ \A i \in 1..Len(calls) : calls[i].inv = cmds[i]
           /\ pc = "running" => pending = SubSeq(cmds, Len(calls) + 1, 2)
           /\ pc \in {"running", "done"}
           /\ pc = "done"
              => /\ Len(calls) = 2
                 /\ outcome = <<Result(~Failed(calls[2].result))>>

C19_Witness ==
    /\ Called("remove_service") /\ pc = "done"
    /\ Failed(calls[1].result)
    /\ calls[2] = Call(RemoveCommand("Foo"), Succeeded)
    /\ outcome = <<Result(TRUE)>>

----------------------------------------------------------------------------
\* the word after the state code on the first STATE line of what sc query
\* printed, <<>> when there is none
StateName(stdout) ==
    LET lines == split(stdout, "\n")
        found == {i \in 1..Len(lines) : Contains(lines[i], "STATE")}
    IN  IF found = {} THEN <<>>
        ELSE <<Words(split(lines[Min(found)], ":")[2])[2]>>

(* C20: when the sc query run exits with status 0 and its output has a     *)
(* STATE line, get_service_status returns the state name of that line      *)
(* (RUNNING for STATE : 4  RUNNING), not the numeric state code; when the  *)
(* exit status is not 0 or there is no STATE line, it returns "Unknown".   *)
C20_StatusName ==
    Called("get_service_status")
    => LET r == calls[Len(calls)].result
           status == outcome[1].value
       IN  r.launched
           => IF r.returncode = 0 /\ StateName(r.stdout) # <<>>
              THEN status = StateName(r.stdout)[1] /\ int(status) = <<>>
              ELSE status = "Unknown"

----------------------------------------------------------------------------
(* C29: NSSmManager.restart_service(name) issues stop <name> and then      *)
(* start <name>, once each and nothing else, and returns True exactly when *)
(* the start command succeeded: when it fails, the result is False.        *)
C29_RestartService ==
    Called("restart_service")
    => LET name == operation[1].of
           cmds == <<StopCommand(name), StartCommand(name)>>
       IN  /\ Len(calls) <= 2
           /\ \A i \in 1..Len(calls) : calls[i].inv = cmds[i]
           /\ pc = "done"
              => /\ Len(calls) = 2
                 /\ outcome = <<Result(~Failed(calls[2].result))>>

(***************************************************************************)
(* src/nssm_gui/utils/config.py: ConfigManager.  self.config is a dict     *)
(* whose values are references: config[k] = <<owner, k>> names the object  *)
(* the key refers to, so that two dicts can refer to the same object, as   *)
(* after DEFAULT_CONFIG.copy(), which copies the top level only.           *)
(***************************************************************************)
\* most ConfigManager instances created in one behaviour
MaxManagers == 2
\* largest max_recent drawn as an input
MaxRecent == 3

ConfigDirs == {"C:\\cfg"}
RecentNames == {"service1", "service2", "service3"}

\* what config.json holds when it can be read: its dict-valued and its
\* list-valued keys
FileDocs ==
    { [dicts |-> <<>>, lists |-> <<>>],
      [dicts |-> [ui |-> [dark_mode |-> "true", auto_refresh |-> "false"]],
       lists |-> [recent_services |-> <<"service1", "service2">>]] }

\* the state of config.json when a ConfigManager is created
FileStates ==
    { [exists |-> FALSE, readable |-> FALSE, doc |-> [dicts |-> <<>>, lists |-> <<>>]],
      [exists |-> TRUE, readable |-> FALSE, doc |-> [dicts |-> <<>>, lists |-> <<>>]] }
    \cup { [exists |-> TRUE, readable |-> TRUE, doc |-> doc] : doc \in FileDocs }

\* the record of a call: its arguments, the list it found, what it returned
Returned(call, m, args, max_recent, before, value, prefs) ==
    <<[call |-> call, manager |-> m, args |-> args, max_recent |-> max_recent,
       before |-> before, value |-> value, prefs |-> prefs]>>

\* save_config returns True, or False when writing the file fails
SaveResults == {"True", "False"}

\* update_nested_dict(d, u) of _ensure_defaults on a dict of the file: the
\* keys of the default that are missing are added
update_nested_dict(d, u) ==
    [k \in DOMAIN d \cup DOMAIN u |-> IF k \in DOMAIN d THEN d[k] ELSE u[k]]

\* ConfigManager(config_dir): __init__ writes the backup directory into
\* the class-level DEFAULT_CONFIG, then load_config: a missing or
\* unreadable file gives DEFAULT_CONFIG.copy(); a readable one gives new
\* objects, to which _ensure_defaults adds the missing nested keys and,
\* for a key that is missing at the top level, the object of the class
ConfigManager(config_dir, file) ==
    LET m == Len(managers) + 1
        defaults == [dicts EXCEPT ![<<0, "advanced">>].backup_directory =
                                      config_dir \o "\\backups"]
        loaded == DOMAIN file.doc.dicts \cup DOMAIN file.doc.lists
    IN  /\ IF file.exists /\ file.readable
           THEN /\ dicts' =
                      [id \in DOMAIN defaults
                              \cup {<<m, k>> : k \in DOMAIN file.doc.dicts} |->
                          IF id \in DOMAIN defaults THEN defaults[id]
                          ELSE IF id[2] \in DOMAIN DefaultSections
                          THEN update_nested_dict(file.doc.dicts[id[2]],
                                                  defaults[<<0, id[2]>>])
                          ELSE file.doc.dicts[id[2]]]
                /\ lists' =
                      [id \in DOMAIN lists
                              \cup {<<m, k>> : k \in DOMAIN file.doc.lists} |->
                          IF id \in DOMAIN lists THEN lists[id]
                          ELSE file.doc.lists[id[2]]]
                /\ managers' =
                      Append(managers,
                             [config_dir |-> config_dir,
                              config |-> [k \in DOMAIN DEFAULT_CONFIG \cup loaded |->
                                             IF k \in loaded THEN <<m, k>>
                                             ELSE DEFAULT_CONFIG[k]]])
           ELSE /\ dicts' = defaults
                /\ lists' = lists
                /\ managers' = Append(managers, [config_dir |-> config_dir,
                                                 config |-> DEFAULT_CONFIG])
        /\ returned' = Returned("ConfigManager", m, <<config_dir>>, 0, <<>>,
                                "", <<>>)
        /\ UNCHANGED beyond_config

NewConfigManager ==
    /\ Len(managers) < MaxManagers
    /\ \E config_dir \in ConfigDirs, file \in FileStates :
          ConfigManager(config_dir, file)

\* self.config[k] = <a new object>: the key refers to an object of its own
Refer(m, k) ==
    [managers EXCEPT ![m].config = (k :> <<m, k>>) @@ @]

\* the objects with object id holding value
Store(objects, id, value) == (id :> value) @@ objects

\* set(section, key, value): the section dict is changed in place
set(m, section, key, value) ==
    LET self_config == managers[m].config
    IN  /\ IF section \notin DOMAIN self_config
           THEN /\ managers' = Refer(m, section)
                /\ dicts' = Store(dicts, <<m, section>>, (key :> value))
           ELSE /\ managers' = managers
                /\ dicts' = [dicts EXCEPT ![self_config[section]] = (key :> value) @@ @]
        /\ returned' = Returned("set", m, <<section, key, value>>, 0, <<>>,
                                "True", <<>>)
        /\ UNCHANGED <<lists, beyond_config>>

\* get_ui_preferences(): self.config.get('ui', DEFAULT_CONFIG['ui'].copy())
get_ui_preferences(m) ==
    LET self_config == managers[m].config
    IN  /\ returned' = Returned("get_ui_preferences", m, <<>>, 0, <<>>, "",
                                IF "ui" \in DOMAIN self_config THEN dicts[self_config["ui"]]
                                ELSE dicts[DEFAULT_CONFIG["ui"]])
        /\ UNCHANGED <<dicts, lists, managers, beyond_config>>

\* set_ui_preferences(preferences): the key refers to the dict passed in
set_ui_preferences(m, preferences) ==
    /\ managers' = Refer(m, "ui")
    /\ dicts' = Store(dicts, <<m, "ui">>, preferences)
    /\ \E saved \in SaveResults :
          returned' = Returned("set_ui_preferences", m, <<>>, 0, <<>>, saved,
                               preferences)
    /\ UNCHANGED <<lists, beyond_config>>

\* recent.remove(service_name): the first occurrence is removed
remove(recent, service_name) ==
    LET found == {i \in 1..Len(recent) : recent[i] = service_name}
    IN  IF found = {} THEN recent
        ELSE SubSeq(recent, 1, Min(found) - 1)
             \o SubSeq(recent, Min(found) + 1, Len(recent))

\* recent[:max_recent]
Slice(recent, max_recent) ==
    IF max_recent >= 0
    THEN SubSeq(recent, 1, IF max_recent < Len(recent) THEN max_recent
                           ELSE Len(recent))
    ELSE SubSeq(recent, 1, Len(recent) + max_recent)

\* a variant that appends the name instead of inserting it at the front
add_recent_service_appending(m, service_name, max_recent) ==
    LET self_config == managers[m].config
        found == self_config["recent_services"]
        recent == remove(lists[found], service_name) \o <<service_name>>
    IN  /\ lists' = Store([lists EXCEPT ![found] = recent],
                          <<m, "recent_services">>, Slice(recent, max_recent))
        /\ managers' = Refer(m, "recent_services")
        /\ \E saved \in SaveResults :
              returned' = Returned("add_recent_service", m, <<service_name>>,
                                   max_recent, lists[found], saved, <<>>)
        /\ UNCHANGED <<dicts, beyond_config>>

\* add_recent_service(service_name, max_recent): the list the key refers to
\* is changed in place (remove, insert(0, ...)), then the key is made to
\* refer to the slice, a new list
add_recent_service(m, service_name, max_recent) ==
    LET self_config == managers[m].config
        found == self_config["recent_services"]
        recent == <<service_name>> \o remove(lists[found], service_name)
    IN  /\ lists' = Store([lists EXCEPT ![found] = recent],
                          <<m, "recent_services">>, Slice(recent, max_recent))
        /\ managers' = Refer(m, "recent_services")
        /\ \E saved \in SaveResults :
              returned' = Returned("add_recent_service", m, <<service_name>>,
                                   max_recent, lists[found], saved, <<>>)
        /\ UNCHANGED <<dicts, beyond_config>>

\* save_service_template(template_name, config_dict): the templates dict is
\* changed in place
save_service_template(m, template_name, config_dict) ==
    LET templates == managers[m].config["service_templates"]
    IN  /\ dicts' = [dicts EXCEPT ![templates] = (template_name :> config_dict) @@ @]
        /\ \E saved \in SaveResults :
              returned' = Returned("save_service_template", m,
                                   <<template_name, config_dict>>, 0, <<>>,
                                   saved, <<>>)
        /\ UNCHANGED <<lists, managers, beyond_config>>

\* delete_template(template_name): del templates[template_name] in place;
\* False when there is no such template
delete_template(m, template_name) ==
    LET templates == managers[m].config["service_templates"]
    IN  /\ IF template_name \in DOMAIN dicts[templates]
           THEN /\ dicts' = [dicts EXCEPT ![templates] =
                                [k \in DOMAIN @ \ {template_name} |-> @[k]]]
                /\ \E saved \in SaveResults :
                      returned' = Returned("delete_template", m,
                                           <<template_name>>, 0, <<>>, saved, <<>>)
           ELSE /\ dicts' = dicts
                /\ returned' = Returned("delete_template", m, <<template_name>>,
                                        0, <<>>, "False", <<>>)
        /\ UNCHANGED <<lists, managers, beyond_config>>

\* the calls on the instances created, with their arguments
SetCall ==
    \E m \in 1..Len(managers), section \in {"ui", "plugins"} :
        set(m, section, "dark_mode", "true")

GetUiPreferences ==
    \E m \in 1..Len(managers) : get_ui_preferences(m)

SetUiPreferences ==
    \E m \in 1..Len(managers) :
        \E preferences \in {[dark_mode |-> "true", auto_refresh |-> "false"]} :
            set_ui_preferences(m, preferences)

\* add_recent_service(service_name): max_recent has its default
DefaultMaxRecent == 10

AddRecentServiceDefault ==
    \E m \in 1..Len(managers), service_name \in {"service1", "service3"} :
        add_recent_service(m, service_name, DefaultMaxRecent)

SaveServiceTemplate ==
    \E m \in 1..Len(managers) :
        save_service_template(m, "web", "{\"start\": \"SERVICE_AUTO_START\"}")

DeleteTemplate ==
    \E m \in 1..Len(managers) : delete_template(m, "web")

ConfigNext ==
    \/ NewConfigManager
    \/ SetCall
    \/ GetUiPreferences
    \/ SetUiPreferences
    \/ AddRecentServiceDefault
    \/ SaveServiceTemplate
    \/ DeleteTemplate

ConfigInit == Idle /\ NothingRead /\ NothingConstructed /\ UtilitiesUnused

ConfigSpec == ConfigInit /\ [][ConfigNext]_vars

(***************************************************************************)
(* The list of recent services of one ConfigManager, under every           *)
(* max_recent from 0 to MaxRecent.                                         *)
(***************************************************************************)
OneConfigManager ==
    /\ managers = <<>>
    /\ \E config_dir \in ConfigDirs, file \in FileStates :
          ConfigManager(config_dir, file)

AddRecentService ==
    \E m \in 1..Len(managers), service_name \in RecentNames,
       max_recent \in 0..MaxRecent :
        add_recent_service(m, service_name, max_recent)

RecentNext == OneConfigManager \/ AddRecentService

RecentSpec == ConfigInit /\ [][RecentNext]_vars

\* the last ConfigManager call was call
Returns(call) == returned # <<>> /\ returned[1].call = call

\* the list of recent services of manager m
RecentServices(m) == lists[managers[m].config["recent_services"]]

NoDuplicates(list) ==
    \A i, j \in 1..Len(list) : list[i] = list[j] => i = j

\* the names of list other than name, in their order
Others(list, name) ==
    LET Other(x) == x # name
    IN  SelectSeq(list, Other)

\* list starts with name, and goes on with the first names of the rest
FrontedBy(list, name, rest) ==
    /\ Len(list) >= 1
    /\ list[1] = name
    /\ Len(list) - 1 <= Len(rest)
    /\ Tail(list) = SubSeq(rest, 1, Len(list) - 1)

(* C21: ConfigManager.get_ui_preferences returns the stored 'ui' values   *)
(* and, for every default UI key the stored section lacks, that key with   *)
(* its default value.                                                      *)
C21_UiPreferences ==
    Returns("get_ui_preferences")
    => LET stored == dicts[managers[returned[1].manager].config["ui"]]
           prefs == returned[1].prefs
       IN  \A k \in DOMAIN DefaultSections["ui"] :
              /\ k \in DOMAIN prefs
              /\ prefs[k] = IF k \in DOMAIN stored THEN stored[k]
                            ELSE DefaultSections["ui"][k]

\* DEFAULT_CONFIG holds what the class definition gave it, the backup
\* directory written by __init__ aside
DefaultsIntact ==
    /\ \A k \in DOMAIN DefaultSections :
          dicts[<<0, k>>] =
              IF k = "advanced"
              THEN [DefaultSections[k] EXCEPT !.backup_directory =
                        dicts[<<0, k>>].backup_directory]
              ELSE DefaultSections[k]
    /\ lists[<<0, "recent_services">>] = <<>>

(* C30: after any sequence of set, add_recent_service,                     *)
(* save_service_template, delete_template and set_ui_preferences calls the *)
(* class-level DEFAULT_CONFIG is unchanged, and a ConfigManager created    *)
(* from the defaults afterwards sees the default values, none written      *)
(* through an earlier instance.                                            *)
C30_DefaultIsolation ==
    /\ DefaultsIntact
    /\ Returns("ConfigManager")
       => LET own == managers[returned[1].manager].config
          IN  own = DEFAULT_CONFIG
              => /\ \A k \in DOMAIN DefaultSections \ {"advanced"} :
                       dicts[own[k]] = DefaultSections[k]
                 /\ lists[own["recent_services"]] = <<>>

(* C24: after add_recent_service(name, max_recent) with max_recent >= 1 on *)
(* a duplicate-free list, the list has no duplicates, at most max_recent   *)
(* names, name first, and then the other names in their former order; with *)
(* max_recent = 0 the list is empty.                                       *)
C24_RecentServices ==
    /\ \A m \in 1..Len(managers) : NoDuplicates(RecentServices(m))
    /\ Returns("add_recent_service")
       => LET recent == RecentServices(returned[1].manager)
              name == returned[1].args[1]
          IN  /\ Len(recent) <= returned[1].max_recent
              /\ IF returned[1].max_recent >= 1
                 THEN FrontedBy(recent, name, Others(returned[1].before, name))
                 ELSE recent = <<>>

\* a name that was second of three is moved to the front of a full list
C24_Witness ==
    /\ Returns("add_recent_service")
    /\ Len(returned[1].before) = MaxRecent
    /\ returned[1].max_recent = MaxRecent
    /\ returned[1].before[2] = returned[1].args[1]
    /\ RecentServices(returned[1].manager)
          = <<returned[1].before[2], returned[1].before[1], returned[1].before[3]>>

\* the statement without the condition on max_recent: the name is first
\* after every call
C24_AnyMaxRecent ==
    Returns("add_recent_service")
    => LET recent == RecentServices(returned[1].manager)
           name == returned[1].args[1]
       IN  /\ NoDuplicates(recent)
           /\ Len(recent) <= returned[1].max_recent
           /\ FrontedBy(recent, name, Others(returned[1].before, name))

(***************************************************************************)
(* src/nssm_gui/utils/monitoring.py: ServiceMonitor.  update_service_data  *)
(* is a coroutine with one suspension point, the wait for the executor     *)
(* that runs _get_process_stats; every other method runs to completion on  *)
(* the event loop thread.                                                  *)
(***************************************************************************)
\* largest max_history a ServiceMonitor is created with
MaxHistory == 2
\* samples taken in one behaviour
MaxSamples == 3
\* update_service_data coroutines suspended at the same time
MaxAwaiting == 2
\* restarts counted for one service
MaxRestarts == 1

MonitoredNames == {"web", "db"}
Pids == {1234}

\* what _get_process_stats returns for a live process (the sizes in whole
\* units); None, written <<>>, when the process is gone or psutil fails
ProcessStats ==
    { [cpu_percent |-> 10, memory_percent |-> 5, memory_mb |-> 128,
       io_read_mb |-> 1, io_write_mb |-> 2, start_time |-> 0],
      [cpu_percent |-> 15, memory_percent |-> 7, memory_mb |-> 192,
       io_read_mb |-> 3, io_write_mb |-> 4, start_time |-> 0] }

\* the six history lists of a service_data entry
Histories ==
    {"cpu_percent", "memory_percent", "memory_mb", "io_read_mb",
     "io_write_mb", "timestamps"}

\* the entry update_service_data and reset_service_data create; start_time
\* None is written <<>>
EmptyData ==
    [cpu_percent |-> <<>>, memory_percent |-> <<>>, memory_mb |-> <<>>,
     io_read_mb |-> <<>>, io_write_mb |-> <<>>, timestamps |-> <<>>,
     uptime |-> 0, start_time |-> <<>>, restarts |-> 0]

\* history[-max_history:]
Last(history, max_history) ==
    IF max_history = 0 \/ max_history >= Len(history) THEN history
    ELSE SubSeq(history, Len(history) - max_history + 1, Len(history))

\* the record of a call: the service, whether monitoring was running when
\* the call was made, whether it raised, the value returned and, for
\* get_service_stats, the dict returned
Answer(call, service_name, running, raised, value, stats) ==
    <<[call |-> call, service_name |-> service_name, running |-> running,
       raised |-> raised, value |-> value, stats |-> stats]>>

Reply(call, service_name, running, raised, value) ==
    Answer(call, service_name, running, raised, value, <<>>)

\* ServiceMonitor(max_history)
ServiceMonitor(max_history) ==
    /\ monitor = <<>>
    /\ monitor' = <<[max_history |-> max_history, running |-> FALSE,
                     service_data |-> <<>>]>>
    /\ reply' = Reply("ServiceMonitor", "", FALSE, FALSE, "")
    /\ UNCHANGED <<awaiting, clock, beyond_monitor>>

start_monitoring ==
    /\ monitor # <<>>
    /\ monitor' = <<[monitor[1] EXCEPT !.running = TRUE]>>
    /\ reply' = Reply("start_monitoring", "", monitor[1].running, FALSE, "")
    /\ UNCHANGED <<awaiting, clock, beyond_monitor>>

stop_monitoring ==
    /\ monitor # <<>>
    /\ monitor' = <<[monitor[1] EXCEPT !.running = FALSE]>>
    /\ reply' = Reply("stop_monitoring", "", monitor[1].running, FALSE, "")
    /\ UNCHANGED <<awaiting, clock, beyond_monitor>>

\* service_data with the entry of service_name set to data
WithData(service_data, service_name, data) ==
    (service_name :> data) @@ service_data

\* update_service_data(service_name, pid) up to the await: False when
\* monitoring is not running; otherwise the entry is created if there is
\* none and the coroutine waits for the executor
update_service_data(service_name, pid) ==
    /\ monitor # <<>>
    /\ IF ~monitor[1].running
       THEN /\ reply' = Reply("update_service_data", service_name, FALSE,
                              FALSE, "False")
            /\ UNCHANGED <<monitor, awaiting>>
       ELSE /\ Len(awaiting) < MaxAwaiting
            /\ monitor' =
                  IF service_name \in DOMAIN monitor[1].service_data
                  THEN monitor
                  ELSE <<[monitor[1] EXCEPT !.service_data =
                             WithData(@, service_name, EmptyData)]>>
            /\ awaiting' = Append(awaiting, [service_name |-> service_name,
                                             pid |-> pid])
            /\ reply' = reply
    /\ UNCHANGED <<clock, beyond_monitor>>

\* the entry after the data points of stats are appended at time now, the
\* start time and the uptime are set and the history is limited
Updated(data, stats, now, max_history) ==
    LET appended ==
            [data EXCEPT !.cpu_percent = Append(@, stats.cpu_percent),
                         !.memory_percent = Append(@, stats.memory_percent),
                         !.memory_mb = Append(@, stats.memory_mb),
                         !.io_read_mb = Append(@, stats.io_read_mb),
                         !.io_write_mb = Append(@, stats.io_write_mb),
                         !.timestamps = Append(@, now)]
        begun ==
            IF appended.start_time = <<>>
            THEN [appended EXCEPT !.start_time = <<stats.start_time>>]
            ELSE appended
        timed == [begun EXCEPT !.uptime = now - begun.start_time[1]]
    IN  IF Len(timed.cpu_percent) > max_history
        THEN [k \in DOMAIN timed |->
                 IF k \in Histories THEN Last(timed[k], max_history)
                 ELSE timed[k]]
        ELSE timed

\* update_service_data after the await: the i-th waiting coroutine gets
\* stats from the executor; without stats it returns False, with stats the
\* entry found now is updated
resume_update(i, stats) ==
    LET c == awaiting[i]
    IN  /\ awaiting' = SubSeq(awaiting, 1, i - 1)
                       \o SubSeq(awaiting, i + 1, Len(awaiting))
        /\ IF stats = <<>>
           THEN /\ reply' = Reply("update_service_data", c.service_name, TRUE,
                                  FALSE, "False")
                /\ UNCHANGED <<monitor, clock>>
           ELSE /\ clock < MaxSamples
                /\ clock' = clock + 1
                /\ monitor' =
                      <<[monitor[1] EXCEPT !.service_data[c.service_name] =
                            Updated(@, stats[1], clock + 1,
                                    monitor[1].max_history)]>>
                /\ reply' = Reply("update_service_data", c.service_name, TRUE,
                                  FALSE, "True")
        /\ UNCHANGED beyond_monitor

\* reset_service_data(service_name): only an existing entry is reset
reset_service_data(service_data, service_name) ==
    IF service_name \in DOMAIN service_data
    THEN WithData(service_data, service_name, EmptyData)
    ELSE service_data

\* increment_restart_count(service_name)
increment_restart_count(service_data, service_name) ==
    IF service_name \in DOMAIN service_data
    THEN [service_data EXCEPT ![service_name].restarts = @ + 1]
    ELSE service_data

RECURSIVE sum(_)
sum(history) ==
    IF history = <<>> THEN 0 ELSE Head(history) + sum(Tail(history))

\* a quotient, kept as the pair of its terms
Quotient(n, d) == [sum |-> n, len |-> d]
Zero == Quotient(0, 1)

\* sum(history) / len(history) if history else 0
Average(history) ==
    IF history = <<>> THEN Zero
    ELSE Quotient(sum(history), Len(history))

\* history[-1] if history else 0
Current(history) ==
    IF history = <<>> THEN 0 ELSE history[Len(history)]

\* the dict get_service_stats builds from an entry
Stats(data) ==
    [cpu_history |-> data.cpu_percent,
     memory_history |-> data.memory_percent,
     memory_mb_history |-> data.memory_mb,
     io_read_history |-> data.io_read_mb,
     io_write_history |-> data.io_write_mb,
     timestamps |-> data.timestamps,
     uptime |-> data.uptime,
     start_time |-> data.start_time,
     restarts |-> data.restarts,
     cpu_avg |-> Average(data.cpu_percent),
     cpu_current |-> Current(data.cpu_percent),
     memory_avg |-> Average(data.memory_percent),
     memory_current |-> Current(data.memory_percent),
     memory_mb_avg |-> Average(data.memory_mb),
     memory_mb_current |-> Current(data.memory_mb)]

\* get_service_stats(service_name): reset_service_data is called for a name
\* without entry, then the entry is looked up: KeyError when there is none
get_service_stats(service_name) ==
    LET service_data ==
            IF service_name \notin DOMAIN monitor[1].service_data
            THEN reset_service_data(monitor[1].service_data, service_name)
            ELSE monitor[1].service_data
    IN  /\ monitor # <<>>
        /\ monitor' = <<[monitor[1] EXCEPT !.service_data = service_data]>>
        /\ reply' =
              IF service_name \in DOMAIN service_data
              THEN Answer("get_service_stats", service_name,
                          monitor[1].running, FALSE, "",
                          Stats(service_data[service_name]))
              ELSE Reply("get_service_stats", service_name,
                         monitor[1].running, TRUE, "KeyError")
        /\ UNCHANGED <<awaiting, clock, beyond_monitor>>

NewServiceMonitor ==
    \E max_history \in 0..MaxHistory : ServiceMonitor(max_history)

UpdateServiceData ==
    \E service_name \in MonitoredNames, pid \in Pids :
        update_service_data(service_name, pid)

ResumeUpdate ==
    \E i \in 1..Len(awaiting) :
        \E stats \in {<<>>} \cup {<<s>> : s \in ProcessStats} :
            resume_update(i, stats)

ResetServiceData ==
    /\ monitor # <<>>
    /\ \E service_name \in MonitoredNames :
          /\ monitor' = <<[monitor[1] EXCEPT !.service_data =
                              reset_service_data(@, service_name)]>>
          /\ reply' = Reply("reset_service_data", service_name,
                            monitor[1].running, FALSE, "")
    /\ UNCHANGED <<awaiting, clock, beyond_monitor>>

IncrementRestartCount ==
    /\ monitor # <<>>
    /\ \E service_name \in MonitoredNames :
          /\ service_name \in DOMAIN monitor[1].service_data
             => monitor[1].service_data[service_name].restarts < MaxRestarts
          /\ monitor' = <<[monitor[1] EXCEPT !.service_data =
                              increment_restart_count(@, service_name)]>>
          /\ reply' = Reply("increment_restart_count", service_name,
                            monitor[1].running, FALSE, "")
    /\ UNCHANGED <<awaiting, clock, beyond_monitor>>

GetServiceStats ==
    \E service_name \in MonitoredNames : get_service_stats(service_name)

MonitorNext ==
    \/ NewServiceMonitor
    \/ start_monitoring
    \/ stop_monitoring
    \/ UpdateServiceData
    \/ ResumeUpdate
    \/ ResetServiceData
    \/ IncrementRestartCount
    \/ GetServiceStats

MonitorSpec == ConfigInit /\ [][MonitorNext]_vars

\* the entry of service_name in service_data, the empty entry when absent
DataOf(service_data, service_name) ==
    IF service_name \in DOMAIN service_data THEN service_data[service_name]
    ELSE EmptyData

\* the n most recent elements of history, in their order
MostRecent(history, n) ==
    SubSeq(history, Len(history) - Min({n, Len(history)}) + 1, Len(history))

\* the value of a history list for a sample taken at time now
SampleValue(stats, now, history) ==
    IF history = "timestamps" THEN now ELSE stats[history]

(* C22: ServiceMonitor.get_service_stats(name) for a name without entry in *)
(* service_data does not fail: it creates an empty entry and returns empty *)
(* histories and zero averages and current values.                         *)
C22_UnknownServiceStats ==
    [][(/\ monitor # <<>>
        /\ reply' # reply
        /\ reply'[1].call = "get_service_stats"
        /\ reply'[1].service_name \notin DOMAIN monitor[1].service_data)
       => /\ ~reply'[1].raised
          /\ reply'[1].service_name \in DOMAIN monitor'[1].service_data
          /\ monitor'[1].service_data[reply'[1].service_name] = EmptyData
          /\ reply'[1].stats = Stats(EmptyData)
          /\ \A k \in {"cpu_avg", "memory_avg", "memory_mb_avg"} :
                reply'[1].stats[k] = Zero
          /\ \A k \in {"cpu_current", "memory_current", "memory_mb_current"} :
                reply'[1].stats[k] = 0]_vars

\* the six history lists of every entry have one length, at most max_history
BoundedHistories ==
    monitor # <<>>
    => \A name \in DOMAIN monitor[1].service_data :
          \A h \in Histories :
             /\ Len(monitor[1].service_data[name][h])
                  = Len(monitor[1].service_data[name].timestamps)
             /\ Len(monitor[1].service_data[name][h]) <= monitor[1].max_history

\* a step leaves the history lists of an entry alone, empties them, or adds
\* one sample at the end and keeps the max_history most recent ones
ArrivalOrder ==
    (monitor # <<>> /\ monitor' # <<>>)
    => \A name \in DOMAIN monitor'[1].service_data :
          LET old == DataOf(monitor[1].service_data, name)
              new == monitor'[1].service_data[name]
          IN  \/ \A h \in Histories : new[h] = old[h]
              \/ \A h \in Histories : new[h] = <<>>
              \/ \E stats \in ProcessStats :
                    \A h \in Histories :
                       new[h] = MostRecent(Append(old[h],
                                                  SampleValue(stats, clock', h)),
                                           monitor[1].max_history)

\* an update called while monitoring is stopped returns False and changes
\* no service data
StoppedUpdate ==
    (/\ reply' # reply
     /\ reply'[1].call = "update_service_data"
     /\ ~reply'[1].running)
    => /\ reply'[1].value = "False"
       /\ monitor' = monitor

(* C23: under every interleaving of start_monitoring, stop_monitoring,     *)
(* update_service_data, reset_service_data and increment_restart_count the *)
(* six history lists of every entry have the same length, at most          *)
(* max_history, and hold the most recent samples in arrival order; an      *)
(* update called while monitoring is stopped returns False and changes no  *)
(* service data.                                                           *)
C23_BoundedHistory ==
    []BoundedHistories /\ [][ArrivalOrder /\ StoppedUpdate]_vars

(***************************************************************************)
(* src/nssm_gui/utils/asyncqt.py: AsyncRunner.  One runner has one signal, *)
(* task_done(result, exception).  A coroutine runs on the event loop       *)
(* thread; when it is done its _done_callback queues an emission of the    *)
(* signal, which the GUI thread delivers to every connected slot.          *)
(***************************************************************************)
\* coroutines submitted in one behaviour
MaxCoroutines == 3

\* what a coroutine ends with: a result, or an exception
Outcomes ==
    { [result |-> "True", exception |-> "None"],
      [result |-> "None", exception |-> "RuntimeError"] }

\* run_coroutine(coro, callback): the callback, if there is one, is
\* connected to task_done, and the coroutine is submitted to the loop.
\* The coroutine and its callback are known by the number of the call.
run_coroutine(callback) ==
    LET t == Len(tasks) + 1
    IN  /\ Len(tasks) < MaxCoroutines
        /\ connections' = IF callback THEN Append(connections, t)
                          ELSE connections
        /\ tasks' = Append(tasks, [callback |-> callback, done |-> FALSE,
                                   result |-> "None", exception |-> "None"])
        /\ UNCHANGED <<queue, invocations, beyond_runner>>

\* the coroutine t is done: _done_callback takes task.result() or the
\* exception and queues the emission of task_done
_done_callback(t, ended) ==
    /\ ~tasks[t].done
    /\ tasks' = [tasks EXCEPT ![t] = [@ EXCEPT !.done = TRUE,
                                               !.result = ended.result,
                                               !.exception = ended.exception]]
    /\ queue' = Append(queue, [of |-> t, result |-> ended.result,
                               exception |-> ended.exception])
    /\ UNCHANGED <<connections, invocations, beyond_runner>>

\* the GUI thread delivers the first queued emission: every slot connected
\* to task_done is called with its arguments, in connection order
task_done ==
    /\ queue # <<>>
    /\ invocations' =
          invocations \o [i \in 1..Len(connections) |->
                             [callback |-> connections[i],
                              of |-> Head(queue).of,
                              result |-> Head(queue).result,
                              exception |-> Head(queue).exception]]
    /\ queue' = Tail(queue)
    /\ UNCHANGED <<connections, tasks, beyond_runner>>

RunCoroutine == \E callback \in BOOLEAN : run_coroutine(callback)

CoroutineDone ==
    \E t \in 1..Len(tasks), ended \in Outcomes : _done_callback(t, ended)

RunnerNext == RunCoroutine \/ CoroutineDone \/ task_done

RunnerSpec == ConfigInit /\ [][RunnerNext]_vars

\* the invocations of the callback passed with coroutine t
InvocationsOf(t) ==
    {i \in 1..Len(invocations) : invocations[i].callback = t}

\* the emission for coroutine t has been delivered
Delivered(t) ==
    tasks[t].done /\ \A i \in 1..Len(queue) : queue[i].of # t

(* C25: for every run_coroutine(coro, callback) the callback is invoked    *)
(* exactly once, with the result or exception of that coroutine, and never *)
(* when a different coroutine submitted on the same runner completes.      *)
C25_CallbackDelivery ==
    \A t \in 1..Len(tasks) :
        tasks[t].callback
        => /\ \A i \in InvocationsOf(t) :
                 /\ invocations[i].of = t
                 /\ invocations[i].result = tasks[t].result
                 /\ invocations[i].exception = tasks[t].exception
           /\ Cardinality(InvocationsOf(t)) <= 1
           /\ Delivered(t) => Cardinality(InvocationsOf(t)) = 1

(***************************************************************************)
(* src/nssm_gui/ui/main_window.py: the service table of NSSmGUI.  The      *)
(* table view shows table_model, or, once apply_filter has run, a          *)
(* QSortFilterProxyModel over it; a row of the view is a row of the model  *)
(* the view shows.  Rows are counted from 1.                               *)
(***************************************************************************)
UpperCase == "ABCDEFGHIJKLMNOPQRSTUVWXYZ"
LowerCase == "abcdefghijklmnopqrstuvwxyz"

LowerChar(c) ==
    IF \E i \in 1..Len(UpperCase) : Char(UpperCase, i) = c
    THEN Char(LowerCase, CHOOSE i \in 1..Len(UpperCase) : Char(UpperCase, i) = c)
    ELSE c

\* str.lower()
RECURSIVE lower(_)
lower(s) ==
    IF s = "" THEN "" ELSE LowerChar(Char(s, 1)) \o lower(Tail(s))

\* the services nssm reports, sorted by name.lower() as
\* async_refresh_services sorts them
ServiceLists ==
    LET alpha == [name |-> "Alpha", state |-> "Running"]
        beta(state) == [name |-> "beta", state |-> state]
        web == [name |-> "web", state |-> "Running"]
    IN  {<<>>, <<alpha>>, <<web>>, <<alpha, web>>}
        \cup UNION { {<<beta(s)>>, <<alpha, beta(s)>>, <<beta(s), web>>,
                      <<alpha, beta(s), web>>} : s \in {"Running", "Stopped"} }

FilterTexts == {"", "B", "w"}
StatusFilters == {"All", "Running", "Stopped"}

\* table_model.get_service(row): None, written <<>>, for a row out of range
get_service(row) ==
    IF 1 <= row /\ row <= Len(services) THEN <<services[row]>> ELSE <<>>

\* the proxy apply_filter builds: the regular expression filter_text.lower()
\* on the name column, case-insensitive, replaced by a fixed string no name
\* contains when the status filter is not "All" and some service is in
\* another state
Proxy(text, status, list) ==
    IF /\ status # "All"
       /\ \E row \in 1..Len(list) : lower(list[row].state) # lower(status)
    THEN [pattern |-> "THIS_WILL_NOT_MATCH_ANYTHING"]
    ELSE [pattern |-> lower(text)]

\* filterAcceptsRow: the name contains the pattern, whatever the case
Accepts(p, service) == Contains(lower(service.name), lower(p.pattern))

\* the rows of table_model the view shows, in the order it shows them
ShownRows ==
    IF proxy = <<>> THEN [row \in 1..Len(services) |-> row]
    ELSE LET Accepted(row) == Accepts(proxy[1], services[row])
         IN  SelectSeq([row \in 1..Len(services) |-> row], Accepted)

\* apply_filter: a new proxy is built and set on the table, which gets a new
\* selection model without selection
apply_filter(text, status) ==
    /\ filter_text' = text
    /\ status_filter' = status
    /\ proxy' = <<Proxy(text, status, services)>>
    /\ selection' = 0
    /\ selected_service' = <<>>
    /\ UNCHANGED <<services, beyond_window>>

\* the user edits the filter text: textChanged calls apply_filter
EditFilterText ==
    \E text \in FilterTexts \ {filter_text} : apply_filter(text, status_filter)

\* the user picks a status: currentTextChanged calls apply_filter
PickStatusFilter ==
    \E status \in StatusFilters \ {status_filter} :
        apply_filter(filter_text, status)

\* async_refresh_services: table_model.update_services resets the model,
\* which clears the selection, so no selection is restored
async_refresh_services ==
    \E list \in ServiceLists :
        /\ services' = list
        /\ selection' = 0
        /\ selected_service' = <<>>
        /\ UNCHANGED <<filter_text, status_filter, proxy, beyond_window>>

\* the user clicks a row of the table
SelectRow ==
    \E row \in 1..Len(ShownRows) :
        /\ selection' = row
        /\ selected_service' = <<>>
        /\ UNCHANGED <<services, filter_text, status_filter, proxy,
                       beyond_window>>

\* get_selected_service, called by the handler of a button: the row number
\* of the selected view row is looked up in table_model
get_selected_service ==
    /\ selected_service' =
          <<[service |-> IF selection = 0 THEN <<>> ELSE get_service(selection)]>>
    /\ UNCHANGED <<services, filter_text, status_filter, proxy, selection,
                   beyond_window>>

WindowNext ==
    \/ EditFilterText
    \/ PickStatusFilter
    \/ async_refresh_services
    \/ SelectRow
    \/ get_selected_service

WindowSpec == ConfigInit /\ [][WindowNext]_vars

\* the ServiceInfo the view displays in its selected row
Displayed == <<services[ShownRows[selection]]>>

(* C26: in every reachable state of the main window, also after            *)
(* apply_filter installed a proxy that hides rows, get_selected_service    *)
(* returns the ServiceInfo displayed in the selected row, and None when    *)
(* no row is selected.                                                     *)
C26_SelectedService ==
    selected_service # <<>>
    => selected_service[1].service = IF selection = 0 THEN <<>> ELSE Displayed

(***************************************************************************)
(* src/nssm_gui/ui/dialogs.py: AddServiceDialog, opened by the add_service *)
(* and edit_service handlers of the main window.  The dialog is the record *)
(* of its widgets: the text of a line edit, the current text of a combo    *)
(* box, the state of a check box, the value of a spin box, the items of a  *)
(* list.                                                                   *)
(***************************************************************************)
\* configure_service calls started in one behaviour
MaxStarted == 1
\* hooks added in one dialog
MaxHooks == 1

StartupTypeItems ==
    <<"SERVICE_AUTO_START", "SERVICE_DELAYED_AUTO_START",
      "SERVICE_DEMAND_START", "SERVICE_DISABLED">>
ServiceTypeItems == <<"SERVICE_WIN32_OWN_PROCESS", "SERVICE_INTERACTIVE_PROCESS">>
PriorityItems ==
    <<"REALTIME_PRIORITY_CLASS", "HIGH_PRIORITY_CLASS",
      "ABOVE_NORMAL_PRIORITY_CLASS", "NORMAL_PRIORITY_CLASS",
      "BELOW_NORMAL_PRIORITY_CLASS", "IDLE_PRIORITY_CLASS">>
ExitActionItems == <<"Restart", "Ignore", "Exit", "Suicide">>

\* the widgets after init_ui
InitialWidgets ==
    [ service_name_input |-> "", executable_path_input |-> "",
      app_directory_input |-> "", arguments_input |-> "",
      display_name_input |-> "", description_input |-> "",
      startup_type_combo |-> StartupTypeItems[1],
      service_type_combo |-> ServiceTypeItems[1],
      logon_radio |-> "system_radio", username_input |-> "",
      dependencies_list |-> <<>>,
      priority_combo |-> PriorityItems[1],
      stdout_path_input |-> "", stderr_path_input |-> "",
      env_table |-> <<>>,
      method_console_checkbox |-> TRUE, console_delay_input |-> 0,
      method_window_checkbox |-> TRUE, window_delay_input |-> 0,
      method_threads_checkbox |-> TRUE, threads_delay_input |-> 0,
      kill_process_tree_checkbox |-> FALSE,
      throttle_delay_input |-> 0, exit_action_combo |-> ExitActionItems[1],
      restart_delay_input |-> 0,
      rotate_files_checkbox |-> FALSE, rotate_online_checkbox |-> FALSE,
      rotate_seconds_input |-> 0, rotate_bytes_low_input |-> 0,
      hook_share_output_handles_checkbox |-> FALSE,
      hook_command_input |-> "", hooks_list |-> <<>> ]

\* combo.findText(text) and setCurrentIndex when it is found
SetCurrentText(items, current, text) ==
    IF text \in Range(items) THEN text ELSE current

\* QSpinBox.setValue(value) with setRange(0, maximum)
SetValue(value, maximum) ==
    IF value < 0 THEN 0 ELSE IF value > maximum THEN maximum ELSE value

\* the radio button load_service_config checks for an account
RadioOf(object_name) ==
    CASE object_name = "LocalSystem" -> "system_radio"
      [] object_name = "LocalService" -> "service_radio"
      [] object_name = "NetworkService" -> "network_radio"
      [] OTHER -> "user_radio"

\* load_service_config(config) on the widgets w
load_service_config(w, c) ==
    [ w EXCEPT
      !.service_name_input = c.service_name,
      !.executable_path_input = c.application_path,
      !.app_directory_input = c.app_directory,
      !.arguments_input = c.arguments,
      !.display_name_input = c.display_name,
      !.description_input = c.description,
      !.startup_type_combo = SetCurrentText(StartupTypeItems, @, c.start),
      !.service_type_combo = SetCurrentText(ServiceTypeItems, @, c.type),
      !.logon_radio = RadioOf(c.object_name),
      !.username_input = IF RadioOf(c.object_name) = "user_radio"
                         THEN c.object_name ELSE @,
      !.dependencies_list = c.dependencies,
      !.priority_combo = SetCurrentText(PriorityItems, @, c.process_priority),
      !.stdout_path_input = c.stdout_path,
      !.stderr_path_input = c.stderr_path,
      !.env_table = c.env_variables,
      !.method_console_checkbox = (c.kill_console_delay > 0),
      !.console_delay_input = SetValue(c.kill_console_delay, 600),
      !.method_window_checkbox = (c.kill_window_delay > 0),
      !.window_delay_input = SetValue(c.kill_window_delay, 600),
      !.method_threads_checkbox = (c.kill_threads_delay > 0),
      !.threads_delay_input = SetValue(c.kill_threads_delay, 600),
      !.kill_process_tree_checkbox = c.kill_process_tree,
      !.throttle_delay_input = SetValue(c.throttle_delay, 3600),
      !.exit_action_combo = SetCurrentText(ExitActionItems, @, c.app_exit),
      !.restart_delay_input = SetValue(c.restart_delay, 3600),
      !.rotate_files_checkbox = c.rotate_files,
      !.rotate_online_checkbox = c.rotate_online,
      !.rotate_seconds_input = SetValue(c.rotate_seconds, 86400),
      !.rotate_bytes_low_input = SetValue(c.rotate_bytes_low, 1000000),
      !.hook_share_output_handles_checkbox = c.hook_share_output_handles,
      !.hooks_list = [i \in 1..Len(c.hooks) |->
                         c.hooks[i][1] \o " - " \o c.hooks[i][2]] ]

\* AddServiceDialog(parent, existing_config): a configuration object is
\* truthy whatever its fields, so load_service_config runs and the service
\* name field is disabled whenever one is passed
AddServiceDialog(opened_by, existing_config) ==
    [ opened_by |-> opened_by,
      existing_config |-> existing_config,
      service_name_enabled |-> existing_config = <<>>,
      widgets |-> IF existing_config = <<>> THEN InitialWidgets
                  ELSE load_service_config(InitialWidgets, existing_config[1]) ]

\* the index of the first occurrence of sub in s, 0 if there is none
IndexOf(s, sub) ==
    LET hits == {i \in 1..(Len(s) - Len(sub) + 1) :
                    SubSeq(s, i, i + Len(sub) - 1) = sub}
    IN  IF hits = {} THEN 0 ELSE Min(hits)

\* s.split(sep, 1)
SplitOnce(s, sep) ==
    LET i == IndexOf(s, sep)
    IN  IF i = 0 THEN <<s>>
        ELSE <<SubSeq(s, 1, i - 1), SubSeq(s, i + Len(sep), Len(s))>>

\* the entries of hooks_list get_service_config reads: those with ' - ' and
\* ': '
HookEntries(entries) ==
    LET Read(entry) == IndexOf(entry, " - ") > 0 /\ IndexOf(entry, ": ") > 0
    IN  SelectSeq(entries, Read)

\* event_action.split(' - ', 1) gives one part only: unpacking it raises
\* ValueError
HookRaises(entry) ==
    Len(SplitOnce(SplitOnce(entry, ": ")[1], " - ")) < 2

\* the hooks dict built from the entries read
RECURSIVE HooksOf(_, _)
HooksOf(hooks, entries) ==
    IF entries = <<>> THEN hooks
    ELSE LET parts == SplitOnce(Head(entries), ": ")
             event == SplitOnce(parts[1], " - ")[1]
         IN  HooksOf(DictPut(hooks, event, parts[2]), Tail(entries))

\* config_dict of get_service_config
ConfigDict(w) ==
    [ service_name |-> strip(w.service_name_input, Whitespace),
      application_path |-> strip(w.executable_path_input, Whitespace),
      arguments |-> strip(w.arguments_input, Whitespace),
      app_directory |-> strip(w.app_directory_input, Whitespace),
      display_name |-> strip(w.display_name_input, Whitespace),
      description |-> strip(w.description_input, Whitespace),
      start |-> w.startup_type_combo,
      type |-> w.service_type_combo,
      process_priority |-> w.priority_combo,
      stdout_path |-> strip(w.stdout_path_input, Whitespace),
      stderr_path |-> strip(w.stderr_path_input, Whitespace),
      object_name |-> CASE w.logon_radio = "system_radio" -> "LocalSystem"
                        [] w.logon_radio = "service_radio" -> "LocalService"
                        [] w.logon_radio = "network_radio" -> "NetworkService"
                        [] OTHER -> strip(w.username_input, Whitespace),
      dependencies |-> w.dependencies_list,
      env_variables |-> w.env_table,
      kill_console_delay |-> IF w.method_console_checkbox
                             THEN w.console_delay_input ELSE 0,
      kill_window_delay |-> IF w.method_window_checkbox
                            THEN w.window_delay_input ELSE 0,
      kill_threads_delay |-> IF w.method_threads_checkbox
                             THEN w.threads_delay_input ELSE 0,
      kill_process_tree |-> w.kill_process_tree_checkbox,
      throttle_delay |-> w.throttle_delay_input,
      app_exit |-> w.exit_action_combo,
      restart_delay |-> w.restart_delay_input,
      rotate_files |-> w.rotate_files_checkbox,
      rotate_online |-> w.rotate_online_checkbox,
      rotate_seconds |-> w.rotate_seconds_input,
      rotate_bytes_low |-> w.rotate_bytes_low_input,
      hook_share_output_handles |-> w.hook_share_output_handles_checkbox,
      hooks |-> HooksOf(<<>>, HookEntries(w.hooks_list)) ]

\* get_service_config() of the dialog d: None, written <<>>, when the name
\* is empty, when the path is empty and there is no existing configuration,
\* when a hook entry cannot be unpacked or when ServiceConfig rejects the
\* values; otherwise the ServiceConfig built from the widgets
DialogGetServiceConfig(d) ==
    LET w == d.widgets
    IN  IF strip(w.service_name_input, Whitespace) = "" THEN <<>>
        ELSE IF /\ strip(w.executable_path_input, Whitespace) = ""
                /\ d.existing_config = <<>> THEN <<>>
        ELSE IF \E i \in 1..Len(HookEntries(w.hooks_list)) :
                   HookRaises(HookEntries(w.hooks_list)[i]) THEN <<>>
        ELSE IF FailedFields("models", ConfigDict(w)) # {} THEN <<>>
        ELSE <<Instance(ConfigDict(w))>>

\* the configurations get_service_config of the service manager hands to
\* edit_service
EditConfigs ==
    { Instance([service_name |-> "Foo", application_path |-> "C:\\app.exe"]),
      Instance([service_name |-> "Foo", application_path |-> "C:\\app.exe",
                hooks |-> << <<"Start/Pre", "C:\\hook.bat">> >>]),
      Instance([service_name |-> "Foo", application_path |-> "C:\\app.exe",
                kill_console_delay |-> 1500]) }

\* NSSmGUI.add_service: the dialog is created with a default ServiceConfig
add_service ==
    /\ dialog = <<>>
    /\ Len(started) < MaxStarted
    /\ dialog' = <<AddServiceDialog("add_service", <<ServiceConfig>>)>>
    /\ UNCHANGED <<obtained, started, beyond_dialog>>

\* NSSmGUI.edit_service_get_config_callback: the dialog is created with the
\* configuration read from the service
edit_service ==
    /\ dialog = <<>>
    /\ Len(started) < MaxStarted
    /\ \E c \in EditConfigs :
          dialog' = <<AddServiceDialog("edit_service", <<c>>)>>
    /\ UNCHANGED <<obtained, started, beyond_dialog>>

\* the line edits the user can type into, when they are enabled
Enabled(d, field) ==
    IF field = "service_name_input" THEN d.service_name_enabled ELSE TRUE

\* the user replaces the text of an enabled line edit
TypeText ==
    /\ dialog # <<>>
    /\ \E field \in {"service_name_input", "executable_path_input",
                     "arguments_input", "hook_command_input"},
          text \in {"Bar", "C:\\app.exe"} :
          /\ Enabled(dialog[1], field)
          /\ dialog' = <<[dialog[1] EXCEPT !.widgets[field] = text]>>
    /\ UNCHANGED <<obtained, started, beyond_dialog>>

\* add_hook: the entry "event - action: command" is added to the hooks list
\* and the command field is cleared; nothing is added without a command
add_hook ==
    /\ dialog # <<>>
    /\ Len(dialog[1].widgets.hooks_list) < MaxHooks
    /\ LET w == dialog[1].widgets
           command == strip(w.hook_command_input, Whitespace)
       IN  dialog' =
              IF command = "" THEN dialog
              ELSE <<[dialog[1] EXCEPT
                        !.widgets.hooks_list =
                            Append(@, "Start_Pre - Execute: " \o command),
                        !.widgets.hook_command_input = ""]>>
    /\ UNCHANGED <<obtained, started, beyond_dialog>>

\* the dialog shows what load_service_config put into it
Unedited(d) ==
    /\ d.existing_config # <<>>
    /\ d.widgets = load_service_config(InitialWidgets, d.existing_config[1])

\* OK: accept() closes the dialog only when get_service_config returns a
\* configuration; the handler of the main window then reads the
\* configuration again and starts configure_service with it
accept ==
    /\ dialog # <<>>
    /\ LET got == DialogGetServiceConfig(dialog[1])
       IN  /\ obtained' = <<[opened_by |-> dialog[1].opened_by,
                             existing_config |-> dialog[1].existing_config,
                             unedited |-> Unedited(dialog[1]),
                             config |-> got]>>
           /\ IF got = <<>>
              THEN UNCHANGED <<dialog, started>>
              ELSE /\ dialog' = <<>>
                   /\ started' =
                         Append(started,
                                [config |-> got[1],
                                 edit |-> dialog[1].opened_by = "edit_service"])
    /\ UNCHANGED beyond_dialog

\* Cancel: the dialog is closed
reject ==
    /\ dialog # <<>>
    /\ dialog' = <<>>
    /\ UNCHANGED <<obtained, started, beyond_dialog>>

DialogNext ==
    \/ add_service
    \/ edit_service
    \/ TypeText
    \/ add_hook
    \/ accept
    \/ reject

DialogSpec == ConfigInit /\ [][DialogNext]_vars

(* C27: in the dialog opened by NSSmGUI.add_service the service name field *)
(* can be edited, so that a name and a path can be entered and OK starts   *)
(* configure_service(config, edit=False) for the entered name.             *)
C27_AddServiceNameEditable ==
    (dialog # <<>> /\ dialog[1].opened_by = "add_service")
    => dialog[1].service_name_enabled

\* no configure_service(config, edit=False) is ever started
NoServiceAdded ==
    \A i \in 1..Len(started) : started[i].edit

(* C28: in the edit dialog, get_service_config after load_service_config(c)*)
(* and no user edit returns a configuration equal to c in every field, the *)
(* hooks map included.                                                     *)
C28_EditRoundTrip ==
    (/\ obtained # <<>>
     /\ obtained[1].opened_by = "edit_service"
     /\ obtained[1].unedited)
    => obtained[1].config = obtained[1].existing_config

====
